---- MODULE Spec2Model ----
(***************************************************************************)
(* Verification model of Figma-Context-MCP: the extractor registry         *)
(* (findOrCreateVar), the tree traversal that drives the extractors, and   *)
(* the image download tool (deduplication, concurrent downloads, report).  *)
(*                                                                         *)
(* Strings that the code builds by concatenation are token sequences; a    *)
(* JavaScript object is the sequence of its <<key, value>> pairs in        *)
(* insertion order, so that JSON.stringify can be modelled by what it      *)
(* does (ordered, undefined-valued properties dropped).                    *)
(***************************************************************************)
EXTENDS Integers, Sequences, FiniteSets, TLC

\* ------------------------------------------------------------------ bounds
NumNodes == 4
IdSpace == 2
MaxDepthOpt == 1
PatternLen == 2
MaxReq == 3
MaxDim == 10
MaxEdge == 2

MaxWork == 2

MaxLimit == 2

SizeSlack == 6

\* ------------------------------------------------- JavaScript value helpers
Undef == <<"undefined">>

Str(s) == <<s>>

Range(s) == {s[i] : i \in DOMAIN s}

\* JSON.stringify of an object: properties in insertion order, those whose
\* value is undefined are left out.
JSONstringify(v) == SelectSeq(v, LAMBDA p : p[2] # Undef)

\* Deep structural equality of two objects: same properties with the same
\* values, whatever order they were inserted in.
StructEq(a, b) == Range(a) = Range(b)

HasKey(v, k) == \E i \in DOMAIN v : v[i][1] = k

\* obj[k] = x : an existing key keeps its position, a new key goes last.
SetProp(v, k, x) ==
  IF HasKey(v, k)
    THEN [i \in DOMAIN v |-> IF v[i][1] = k THEN <<k, x>> ELSE v[i]]
    ELSE Append(v, <<k, x>>)

GetProp(v, k) ==
  IF HasKey(v, k) THEN (CHOOSE p \in Range(v) : p[1] = k)[2] ELSE Undef

\* --------------------------------------------------------------- raw nodes
\* The raw node kinds the traversal is exercised on.  Each record holds the
\* node fields the built-in extractors read.  layout is the record that
\* buildSimplifiedLayout returns for the node; effects the record that
\* buildSimplifiedEffects returns.
NoStyle == [present |-> FALSE, fontFamily |-> "", fontSize |-> 0,
            lineHeightPx |-> 0]

Black == [type |-> "SOLID", visible |-> TRUE,
          r |-> 0, g |-> 0, b |-> 0, a |-> 100, opacity |-> 100]

Red == [type |-> "SOLID", visible |-> TRUE,
        r |-> 1000, g |-> 0, b |-> 0, a |-> 100, opacity |-> 100]

\* A paint of a type parsePaint has no branch for.
Video == [type |-> "VIDEO", visible |-> TRUE]

HiddenEmoji == [type |-> "EMOJI", visible |-> FALSE]

\* An image paint whose scale mode is none of FILL, FIT, TILE, STRETCH.
CropImage ==
  [type |-> "IMAGE", visible |-> TRUE, imageRef |-> "a", scaleMode |-> "CROP",
   scalingFactor |-> 0,
   imageTransform |-> [present |-> FALSE, scaleX |-> 100, scaleY |-> 100,
                       translateX |-> 0, translateY |-> 0]]

RawKinds == <<
  [type |-> "FRAME",
   layout |-> <<<<"mode", Str("none")>>>>,
   style |-> NoStyle, characters |-> "",
   fills |-> <<>>,
   strokes |-> <<Black>>, strokeWeight |-> 5, strokeDashes |-> Str("1,2"),
   individualStrokeWeights |-> <<>>,
   effects |-> <<>>, componentId |-> ""],
  [type |-> "INSTANCE",
   layout |-> <<<<"mode", Str("row")>>, <<"gap", Str("4px")>>>>,
   style |-> NoStyle, characters |-> "",
   fills |-> <<Red>>,
   strokes |-> <<Black>>, strokeWeight |-> 0, strokeDashes |-> Str("1,2"),
   individualStrokeWeights |-> <<5, 5, 5, 5>>,
   effects |-> <<>>, componentId |-> "c1"],
  [type |-> "TEXT",
   layout |-> <<<<"mode", Str("column")>>, <<"gap", Str("4px")>>>>,
   style |-> [present |-> TRUE, fontFamily |-> "Inter",
              fontSize |-> 12, lineHeightPx |-> 0],
   characters |-> "hi",
   fills |-> <<Red>>,
   strokes |-> <<>>, strokeWeight |-> 0, strokeDashes |-> Undef,
   individualStrokeWeights |-> <<>>,
   effects |-> <<<<"boxShadow", Str("0px 1px 2px #000")>>>>,
   componentId |-> ""],
  [type |-> "RECTANGLE",
   layout |-> <<<<"mode", Str("none")>>>>,
   style |-> NoStyle, characters |-> "",
   fills |-> <<Video>>,
   strokes |-> <<Black>>, strokeWeight |-> 5, strokeDashes |-> Undef,
   individualStrokeWeights |-> <<>>,
   effects |-> <<>>, componentId |-> ""],
  [type |-> "RECTANGLE",
   layout |-> <<<<"mode", Str("none")>>>>,
   style |-> NoStyle, characters |-> "",
   fills |-> <<CropImage>>,
   strokes |-> <<HiddenEmoji>>, strokeWeight |-> 5, strokeDashes |-> Undef,
   individualStrokeWeights |-> <<>>,
   effects |-> <<>>, componentId |-> ""]
>>

\* The first NumKinds kinds hold paints of recognised variants only; a walk
\* that is not run under the tool handler draws its tree from these.
NumKinds == 3

AllKinds == Len(RawKinds)

Nodes == 1 .. NumNodes

\* The document tree: node 1 is the root, node n > 1 is a child of n \div 2,
\* children in increasing order (document order).
Parent(n) == n \div 2

Children(n) == IF 2 * n > NumNodes THEN <<>>
               ELSE IF 2 * n + 1 > NumNodes THEN <<2 * n>>
               ELSE <<2 * n, 2 * n + 1>>

RECURSIVE DepthOf(_)
DepthOf(n) == IF n = 1 THEN 0 ELSE 1 + DepthOf(Parent(n))

RECURSIVE IsAncestorOrSelf(_, _)
IsAncestorOrSelf(a, n) ==
  IF n = a THEN TRUE
  ELSE IF n <= 1 THEN FALSE
  ELSE IsAncestorOrSelf(a, Parent(n))

TreeDepth == DepthOf(NumNodes)

NoLimit == -1

\* ------------------------------------------------------------ transformers
\* Math.round(n / d) for n >= 0, d > 0.
RoundDiv(n, d) == (2 * n + d) \div (2 * d)

DecDigit == <<"0", "1", "2", "3", "4", "5", "6", "7", "8", "9">>

HexDigit == <<"0", "1", "2", "3", "4", "5", "6", "7", "8", "9",
              "A", "B", "C", "D", "E", "F">>

\* String(n) for a natural number, one token per digit.
RECURSIVE DecTokens(_)
DecTokens(n) ==
  IF n < 10 THEN <<DecDigit[n + 1]>>
  ELSE DecTokens(n \div 10) \o <<DecDigit[(n % 10) + 1]>>

\* A number of hundredths as JavaScript prints it: 100 -> 1, 50 -> 0.5.
NumTokens(h) ==
  IF h % 100 = 0 THEN DecTokens(h \div 100)
  ELSE IF h % 10 = 0 THEN DecTokens(h \div 100) \o <<".", DecDigit[((h \div 10) % 10) + 1]>>
  ELSE DecTokens(h \div 100) \o <<".", DecDigit[((h \div 10) % 10) + 1], DecDigit[(h % 10) + 1]>>

\* Colour channels are thousandths of 1, alpha and opacity hundredths of 1.
convertColor(color, opacity) ==
  LET r == RoundDiv(color.r * 255, 1000)
      g == RoundDiv(color.g * 255, 1000)
      b == RoundDiv(color.b * 255, 1000)
      a == RoundDiv(opacity * color.a, 100)
  IN [hex |-> <<"#", HexDigit[(r \div 16) + 1], HexDigit[(r % 16) + 1],
                HexDigit[(g \div 16) + 1], HexDigit[(g % 16) + 1],
                HexDigit[(b \div 16) + 1], HexDigit[(b % 16) + 1]>>,
      opacity |-> a]

formatRGBAColor(color, opacity) ==
  LET r == RoundDiv(color.r * 255, 1000)
      g == RoundDiv(color.g * 255, 1000)
      b == RoundDiv(color.b * 255, 1000)
      a == RoundDiv(opacity * color.a, 100)
  IN <<"rgba(">> \o DecTokens(r) \o <<", ">> \o DecTokens(g) \o <<", ">>
       \o DecTokens(b) \o <<", ">> \o NumTokens(a) \o <<")">>

Max(a, b) == IF a >= b THEN a ELSE b

Minimum(a, b) == IF a <= b THEN a ELSE b

\* ---------------------------------------------------------------- gradients
\* Handle coordinates and stop positions are hundredths of 1; a handle is
\* [x, y], a stop [position, color].
IntTokens(n) == IF n < 0 THEN <<"-">> \o DecTokens(0 - n) ELSE DecTokens(n)

\* Math.atan2(y, x) * (180 / Math.PI) in thousandths of a degree, for the
\* directions whose slope is 0, 1/2, 1, 2 or vertical.
AtanFirstQuadrant(y, x) ==
  CASE y = 0 -> 0
    [] x = 0 -> 90000
    [] y = x -> 45000
    [] 2 * y = x -> 26565
    [] y = 2 * x -> 63435

Atan2Degrees(y, x) ==
  CASE x >= 0 /\ y >= 0 -> AtanFirstQuadrant(y, x)
    [] x >= 0 /\ y < 0 -> 0 - AtanFirstQuadrant(0 - y, x)
    [] x < 0 /\ y >= 0 -> 180000 - AtanFirstQuadrant(y, 0 - x)
    [] x < 0 /\ y < 0 -> AtanFirstQuadrant(0 - y, 0 - x) - 180000

\* [...stops].sort((a, b) => a.position - b.position): a stable sort.
RECURSIVE InsertStop(_, _)
InsertStop(sorted, stop) ==
  IF sorted = <<>> THEN <<stop>>
  ELSE IF stop.position < Head(sorted).position THEN <<stop>> \o sorted
  ELSE <<Head(sorted)>> \o InsertStop(Tail(sorted), stop)

RECURSIVE SortStops(_)
SortStops(stops) ==
  IF stops = <<>> THEN <<>>
  ELSE InsertStop(SortStops(SubSeq(stops, 1, Len(stops) - 1)), stops[Len(stops)])

\* `${cssColor} ${Math.round(position * 100)}%` for a position in percent.
StopTokens(color, percent) ==
  formatRGBAColor(color, 100) \o <<" ">> \o DecTokens(percent) \o <<"%">>

\* The stops at the positions they have, joined with ", ".
RECURSIVE LiteralStops(_)
LiteralStops(stops) ==
  IF stops = <<>> THEN <<>>
  ELSE StopTokens(Head(stops).color, Head(stops).position)
         \o (IF Len(stops) > 1 THEN <<", ">> ELSE <<>>)
         \o LiteralStops(Tail(stops))

\* The parameters t, in hundredths, at which the line through start and end
\* meets an edge of the unit square; the divisions are exact on the handle
\* grid.
EdgeHit(offset, along, across, from) ==
  IF along # 0 /\ from + (offset * across) \div along >= 0
               /\ from + (offset * across) \div along <= 100
    THEN {(offset * 100) \div along} ELSE {}

RECURSIVE Ascending(_)
Ascending(set) ==
  IF set = {} THEN <<>>
  ELSE <<CHOOSE t \in set : \A u \in set : t <= u>>
         \o Ascending(set \ {CHOOSE t \in set : \A u \in set : t <= u})

findExtendedLineIntersections(start, end) ==
  IF end.x = start.x /\ end.y = start.y THEN <<>>
  ELSE Ascending(
         EdgeHit(0 - start.y, end.y - start.y, end.x - start.x, start.x)
           \cup EdgeHit(100 - start.y, end.y - start.y, end.x - start.x, start.x)
           \cup EdgeHit(0 - start.x, end.x - start.x, end.y - start.y, start.y)
           \cup EdgeHit(100 - start.x, end.x - start.x, end.y - start.y, start.y))

\* Math.round(Math.max(0, Math.min(1, (position - lo) / (hi - lo))) * 100)
ExtendedPercent(position, lo, hi) ==
  IF position <= lo THEN 0
  ELSE IF position >= hi THEN 100
  ELSE RoundDiv((position - lo) * 100, hi - lo)

RECURSIVE MappedStops(_, _, _)
MappedStops(stops, lo, hi) ==
  IF stops = <<>> THEN <<>>
  ELSE StopTokens(Head(stops).color, ExtendedPercent(Head(stops).position, lo, hi))
         \o (IF Len(stops) > 1 THEN <<", ">> ELSE <<>>)
         \o MappedStops(Tail(stops), lo, hi)

\* Math.round(angle) of a direction without the quarter turn added.
LinearAngleNoTurn(dx, dy) == RoundDiv(Atan2Degrees(dy, dx), 1000)

\* Math.round(Math.atan2(dy, dx) * (180 / Math.PI) + 90)
LinearAngle(dx, dy) == RoundDiv(Atan2Degrees(dy, dx) + 90000, 1000)

Geometry(stops, cssGeometry) == [stops |-> stops, cssGeometry |-> cssGeometry]

Degrees(angle) == IntTokens(angle) \o <<"deg">>

LinearStops(gradientStops, hits) ==
  IF Len(hits) >= 2
    THEN MappedStops(gradientStops, Minimum(hits[1], hits[2]), Max(hits[1], hits[2]))
    ELSE LiteralStops(gradientStops)

mapLinearGradient(gradientStops, start, end) ==
  IF end.x = start.x /\ end.y = start.y
    THEN Geometry(LiteralStops(gradientStops), Degrees(0))
    ELSE Geometry(LinearStops(gradientStops, findExtendedLineIntersections(start, end)),
                  Degrees(LinearAngle(end.x - start.x, end.y - start.y)))

\* Only the linear geometry is expanded.
mapGradientStops(gradient) ==
  IF Len(gradient.gradientHandlePositions) < 2
    THEN Geometry(LiteralStops(gradient.gradientStops), Degrees(0))
    ELSE mapLinearGradient(gradient.gradientStops,
                           gradient.gradientHandlePositions[1],
                           gradient.gradientHandlePositions[2])

GradientCss(geometry) ==
  <<"linear-gradient(">> \o geometry.cssGeometry \o <<", ">>
    \o geometry.stops \o <<")">>

convertGradientToCss(gradient) ==
  GradientCss(mapGradientStops(
    [gradient EXCEPT !.gradientStops = SortStops(gradient.gradientStops)]))

\* horizontalAlignment and verticalAlignment of a pattern, as css keywords.
PatternHorizontal(alignment) ==
  CASE alignment = "CENTER" -> "center"
    [] alignment = "END" -> "right"
    [] OTHER -> "left"

PatternVertical(alignment) ==
  CASE alignment = "CENTER" -> "center"
    [] alignment = "END" -> "bottom"
    [] OTHER -> "top"

parsePatternPaint(raw) ==
  [type |-> raw.type, patternSource |-> raw.sourceNodeId,
   backgroundRepeat |-> "repeat",
   backgroundSize |-> DecTokens(raw.scalingFactor) \o <<"%">>,
   backgroundPosition |->
     <<PatternHorizontal(raw.horizontalAlignment), " ",
       PatternVertical(raw.verticalAlignment)>>]

\* A 2x3 transform [[scaleX, skewX, translateX], [skewY, scaleY, translateY]]
\* with entries in hundredths and no skew.
TransformValues == {-10, 0, 50, 100}

NoTransform ==
  [present |-> FALSE, scaleX |-> 100, scaleY |-> 100, translateX |-> 0, translateY |-> 0]

Transforms ==
  [present : {TRUE}, scaleX : TransformValues, scaleY : TransformValues,
   translateX : TransformValues, translateY : TransformValues]

\* val.toString() of a transform entry, one token per character.
NumberString(h) ==
  IF h < 0 THEN <<"-">> \o NumTokens(0 - h) ELSE NumTokens(h)

\* str.charCodeAt(i) for the characters a number is printed with.
CharCode(c) ==
  CASE c = "-" -> 45
    [] c = "." -> 46
    [] OTHER -> 47 + (CHOOSE i \in 1 .. 10 : DecDigit[i] = c)

\* ((acc << 5) - acc + code) & 0xffffffff on a 32-bit accumulator kept as
\* <<high 16 bits, low 16 bits>>.
HashStep(acc, code) ==
  <<(acc[1] * 31 + ((acc[2] * 31 + code) \div 65536)) % 65536,
    (acc[2] * 31 + code) % 65536>>

RECURSIVE HashChars(_, _)
HashChars(acc, chars) ==
  IF chars = <<>> THEN acc
  ELSE HashChars(HashStep(acc, CharCode(Head(chars))), Tail(chars))

\* Math.abs of the accumulator read as a signed 32-bit integer.
HashAbs(acc) ==
  IF acc[1] < 32768 THEN acc
  ELSE <<65535 - acc[1] + (IF acc[2] = 0 THEN 1 ELSE 0), (65536 - acc[2]) % 65536>>

HexLower == <<"0", "1", "2", "3", "4", "5", "6", "7", "8", "9",
              "a", "b", "c", "d", "e", "f">>

Hex16(n) ==
  <<HexLower[(n \div 4096) + 1], HexLower[((n \div 256) % 16) + 1],
    HexLower[((n \div 16) % 16) + 1], HexLower[(n % 16) + 1]>>

RECURSIVE StripZeros(_)
StripZeros(digits) ==
  IF Len(digits) > 1 /\ Head(digits) = "0" THEN StripZeros(Tail(digits)) ELSE digits

\* toString(16).substring(0, 6)
HexPrefix(mag) ==
  SubSeq(StripZeros(Hex16(mag[1]) \o Hex16(mag[2])), 1,
         Minimum(6, Len(StripZeros(Hex16(mag[1]) \o Hex16(mag[2])))))

generateTransformHash(t) ==
  HexPrefix(HashAbs(HashChars(<<0, 0>>,
    NumberString(t.scaleX) \o NumberString(0) \o NumberString(t.translateX)
      \o NumberString(0) \o NumberString(t.scaleY) \o NumberString(t.translateY))))

\* imageDownloadArguments; an absent cropTransform is NoTransform, an absent
\* filenameSuffix is Undef.
Processing(crop, dims, transform, suffix) ==
  [needsCropping |-> crop, requiresImageDimensions |-> dims,
   cropTransform |-> transform, filenameSuffix |-> suffix]

handleImageTransform(imageTransform) ==
  Processing(TRUE, FALSE, imageTransform, generateTransformHash(imageTransform))

\* The CSS properties of an image fill; an absent one is Undef.
Css(size, repeat, isBackground, objectFit) ==
  [backgroundSize |-> size, backgroundRepeat |-> repeat,
   isBackground |-> isBackground, objectFit |-> objectFit]

BackgroundCss(size) == Css(Str(size), Str("no-repeat"), Str("true"), Undef)

ObjectCss(fit) == Css(Undef, Undef, Str("false"), Str(fit))

\* backgroundSize of a tiled fill; a scalingFactor of 0 stands for none.
TileSize(scalingFactor) ==
  IF scalingFactor # 0
    THEN <<"calc(var(--original-width) * ">> \o NumTokens(scalingFactor)
           \o <<") calc(var(--original-height) * ">> \o NumTokens(scalingFactor)
           \o <<")">>
    ELSE Str("auto")

translateScaleMode(scaleMode, isBackground, scalingFactor) ==
  CASE scaleMode = "FILL" ->
         [css |-> IF isBackground THEN BackgroundCss("cover") ELSE ObjectCss("cover"),
          processing |-> Processing(FALSE, FALSE, NoTransform, Undef)]
    [] scaleMode = "FIT" ->
         [css |-> IF isBackground THEN BackgroundCss("contain") ELSE ObjectCss("contain"),
          processing |-> Processing(FALSE, FALSE, NoTransform, Undef)]
    [] scaleMode = "TILE" ->
         [css |-> Css(TileSize(scalingFactor), Str("repeat"), Str("true"), Undef),
          processing |-> Processing(FALSE, TRUE, NoTransform, Undef)]
    [] scaleMode = "STRETCH" ->
         [css |-> IF isBackground THEN BackgroundCss("100% 100%") ELSE ObjectCss("fill"),
          processing |-> Processing(FALSE, FALSE, NoTransform, Undef)]
    [] OTHER ->
         [css |-> Css(Undef, Undef, Undef, Undef),
          processing |-> Processing(FALSE, FALSE, NoTransform, Undef)]

\* { ...processing, ...transformProcessing } without the last property.
finalProcessingSpreadOnly(processing, imageTransform) ==
  IF imageTransform.present
    THEN handleImageTransform(imageTransform)
    ELSE processing

\* { ...processing, ...transformProcessing, requiresImageDimensions: ... }
finalProcessing(processing, imageTransform) ==
  IF imageTransform.present
    THEN [handleImageTransform(imageTransform) EXCEPT
            !.requiresImageDimensions =
               processing.requiresImageDimensions
                 \/ handleImageTransform(imageTransform).requiresImageDimensions]
    ELSE processing

\* { ...baseImageFill, ...css, imageDownloadArguments }
ImageFill(raw, translated) ==
  [type |-> "IMAGE", imageRef |-> raw.imageRef, scaleMode |-> raw.scaleMode,
   scalingFactor |-> raw.scalingFactor,
   backgroundSize |-> translated.css.backgroundSize,
   backgroundRepeat |-> translated.css.backgroundRepeat,
   isBackground |-> translated.css.isBackground,
   objectFit |-> translated.css.objectFit,
   imageDownloadArguments |-> finalProcessing(translated.processing, raw.imageTransform)]

GradientTypes ==
  {"GRADIENT_LINEAR", "GRADIENT_RADIAL", "GRADIENT_ANGULAR", "GRADIENT_DIAMOND"}

\* throw new Error(`Unknown paint type: ${raw.type}`)
UnknownPaintType(type) == <<"throw", "Unknown paint type: ", type>>

\* The paint types parsePaint has a branch for.
RecognisedPaintTypes == {"IMAGE", "SOLID", "PATTERN"} \cup GradientTypes

\* parsePaint reaches its final else branch and throws.
parsePaintThrows(raw) == raw.type \notin RecognisedPaintTypes

\* A SOLID paint gives a string (its tokens), an IMAGE paint a record, an
\* unknown type throws.  The values of pattern and gradient paints are not
\* expanded: they carry their type only.
parsePaint(raw, hasChildren) ==
  CASE raw.type = "IMAGE" ->
         ImageFill(raw, translateScaleMode(raw.scaleMode,
                                           hasChildren \/ raw.scaleMode = "TILE",
                                           raw.scalingFactor))
    [] raw.type = "SOLID" ->
         IF convertColor(raw, raw.opacity).opacity = 100
           THEN convertColor(raw, raw.opacity).hex
           ELSE formatRGBAColor(raw, convertColor(raw, raw.opacity).opacity)
    [] raw.type = "PATTERN" -> parsePatternPaint(raw)
    [] raw.type \in GradientTypes ->
         [type |-> raw.type, gradient |-> convertGradientToCss(raw)]
    [] parsePaintThrows(raw) -> UnknownPaintType(raw.type)

isVisible(element) == element.visible

\* A property of a JSON object; one whose value is undefined is left out.
JsonField(key, value) ==
  IF value = Undef THEN <<>> ELSE <<",", key, ":">> \o value

TransformTokens(t) ==
  <<"[[">> \o NumberString(t.scaleX) \o <<",0,">> \o NumberString(t.translateX)
    \o <<"],[0,">> \o NumberString(t.scaleY) \o <<",">>
    \o NumberString(t.translateY) \o <<"]]">>

\* JSON text of imageDownloadArguments.
ProcessingTokens(p) ==
  <<"{needsCropping:", IF p.needsCropping THEN "true" ELSE "false",
    ",requiresImageDimensions:",
    IF p.requiresImageDimensions THEN "true" ELSE "false">>
    \o (IF p.cropTransform.present
          THEN <<",cropTransform:">> \o TransformTokens(p.cropTransform)
          ELSE <<>>)
    \o JsonField("filenameSuffix", p.filenameSuffix) \o <<"}">>

\* JSON text of an image fill.
ImageTokens(fill) ==
  <<"{type:IMAGE,imageRef:", fill.imageRef, ",scaleMode:", fill.scaleMode>>
    \o (IF fill.scalingFactor # 0
          THEN <<",scalingFactor:">> \o NumTokens(fill.scalingFactor) ELSE <<>>)
    \o JsonField("backgroundSize", fill.backgroundSize)
    \o JsonField("backgroundRepeat", fill.backgroundRepeat)
    \o JsonField("isBackground", fill.isBackground)
    \o JsonField("objectFit", fill.objectFit)
    \o <<",imageDownloadArguments:">>
    \o ProcessingTokens(fill.imageDownloadArguments) \o <<"}">>

\* JSON text of what parsePaint returned for raw.
PaintTokens(raw, hasChildren) ==
  CASE raw.type = "SOLID" -> parsePaint(raw, hasChildren)
    [] raw.type = "IMAGE" -> ImageTokens(parsePaint(raw, hasChildren))
    [] raw.type = "PATTERN" ->
         <<"{type:PATTERN,patternSource:", parsePaint(raw, hasChildren).patternSource,
           ",backgroundRepeat:repeat,backgroundSize:">>
           \o parsePaint(raw, hasChildren).backgroundSize
           \o <<",backgroundPosition:">>
           \o parsePaint(raw, hasChildren).backgroundPosition \o <<"}">>
    [] OTHER ->
         <<"{type:", raw.type, ",gradient:">>
           \o parsePaint(raw, hasChildren).gradient \o <<"}">>

\* JSON text of an array of converted paints.
RECURSIVE JoinFills(_, _)
JoinFills(paints, hasChildren) ==
  IF paints = <<>> THEN <<>>
  ELSE PaintTokens(Head(paints), hasChildren)
         \o (IF Len(paints) > 1 THEN <<",">> ELSE <<>>)
         \o JoinFills(Tail(paints), hasChildren)

Px(n) == DecTokens(n) \o <<"px">>

\* values = <<top, right, bottom, left>>, default options
\* (ignoreZero = true, suffix = "px").
generateCSSShorthand(values) ==
  LET top == values[1]
      right == values[2]
      bottom == values[3]
      left == values[4]
  IN IF top = 0 /\ right = 0 /\ bottom = 0 /\ left = 0 THEN Undef
     ELSE IF top = right /\ right = bottom /\ bottom = left THEN Px(top)
     ELSE IF right = left
       THEN IF top = bottom THEN Px(top) \o <<" ">> \o Px(right)
            ELSE Px(top) \o <<" ">> \o Px(right) \o <<" ">> \o Px(bottom)
     ELSE Px(top) \o <<" ">> \o Px(right) \o <<" ">> \o Px(bottom)
            \o <<" ">> \o Px(left)

\* The steps of buildSimplifiedStrokes, each taking the strokes object built
\* so far.
StrokesColors(n, hasChildren) ==
  <<<<"colors",
      IF Len(n.strokes) > 0
        THEN JoinFills(SelectSeq(n.strokes, isVisible), hasChildren)
        ELSE <<>>>>>>

StrokesWeight(n, strokes) ==
  IF n.strokeWeight > 0
    THEN SetProp(strokes, "strokeWeight", Px(n.strokeWeight)) ELSE strokes

StrokesDashes(n, strokes) ==
  IF n.strokeDashes # Undef
    THEN SetProp(strokes, "strokeDashes", n.strokeDashes) ELSE strokes

StrokesIndividual(n, strokes) ==
  IF n.individualStrokeWeights # <<>>
    THEN SetProp(strokes, "strokeWeight",
                 generateCSSShorthand(n.individualStrokeWeights))
    ELSE strokes

buildSimplifiedStrokes(n, hasChildren) ==
  StrokesIndividual(n, StrokesDashes(n, StrokesWeight(n,
    StrokesColors(n, hasChildren))))

hasTextStyle(n) == n.style.present

extractTextStyle(n) ==
  LET style == n.style
  IN << <<"fontFamily", Str(style.fontFamily)>>,
        <<"fontSize", DecTokens(style.fontSize)>>,
        <<"lineHeight",
          IF style.lineHeightPx # 0 /\ style.fontSize # 0
            THEN DecTokens(style.lineHeightPx) \o <<"/">>
                   \o DecTokens(style.fontSize) \o <<"em">>
            ELSE Undef>> >>

\* ---------------------------------------------------------------- registry
Prefixes == {"layout", "style", "fill", "stroke", "effect"}

\* generateVarId(prefix) draws six random characters after the prefix; the
\* random part is a value of 1 .. IdSpace.
AllIds == Prefixes \X (1 .. IdSpace)

generateVarId(prefix, rnd) == <<prefix, rnd>>

NoRef == <<"", 0>>

\* The value of a registry slot that holds no entry.
Absent == <<<<"", <<"absent">>>>>>

EmptyStyles == [id \in AllIds |-> Absent]

StyleKeys(gv) == {id \in AllIds : gv[id] # Absent}

\* findOrCreateVar(globalVars, value, prefix); rnd is the outcome of the
\* random draw generateVarId makes on a miss.
findOrCreateVar(gv, value, prefix, rnd) ==
  IF \E id \in StyleKeys(gv) : JSONstringify(gv[id]) = JSONstringify(value)
    THEN [id |-> CHOOSE id \in StyleKeys(gv) :
                   JSONstringify(gv[id]) = JSONstringify(value),
          styles |-> gv, miss |-> FALSE]
    ELSE [id |-> generateVarId(prefix, rnd),
          styles |-> [gv EXCEPT ![generateVarId(prefix, rnd)] = value],
          miss |-> TRUE]

\* -------------------------------------------------------------- extractors
\* rnd holds the outcomes of the random draws an extractor may consume.
\* An extractor maps the traversal state st = [result, styles, calls] of the
\* node being visited to the state after it ran.  calls is the history of
\* findOrCreateVar calls (node, value, returned id, hit or miss).
EmptyResult == [layout |-> NoRef, textStyle |-> NoRef, fills |-> NoRef,
                strokes |-> NoRef, effects |-> NoRef,
                text |-> "", componentId |-> ""]

\* result[field] = f.id, where f is what findOrCreateVar returned.
Assign(st, n, field, value, f) ==
  [result |-> [st.result EXCEPT ![field] = f.id],
   styles |-> f.styles,
   calls |-> Append(st.calls,
                    [node |-> n, value |-> value, id |-> f.id, miss |-> f.miss])]

Register(st, n, field, value, prefix, rnd) ==
  Assign(st, n, field, value, findOrCreateVar(st.styles, value, prefix, rnd))

layoutExtractor(n, node, st, rnd) ==
  IF Len(node.layout) > 1
    THEN Register(st, n, "layout", node.layout, "layout", rnd[1])
    ELSE st

TextContent(node, st) ==
  IF node.type = "TEXT"
    THEN [st EXCEPT !.result.text = node.characters]
    ELSE st

TextStyle(n, node, st, rnd) ==
  IF hasTextStyle(node)
    THEN Register(st, n, "textStyle", extractTextStyle(node), "style", rnd[1])
    ELSE st

\* textExtractor building a fresh result object instead of mutating the one
\* it is given.
textExtractorFresh(n, node, st, rnd) ==
  TextStyle(n, node, TextContent(node, [st EXCEPT !.result = EmptyResult]), rnd)

textExtractor(n, node, st, rnd) ==
  TextStyle(n, node, TextContent(node, st), rnd)

FillsValue(node, hasChildren) ==
  [i \in 1 .. Len(node.fills) |->
     <<DecDigit[i], PaintTokens(node.fills[i], hasChildren)>>]

VisualsFills(n, node, hasChildren, st, rnd) ==
  IF Len(node.fills) > 0
    THEN Register(st, n, "fills", FillsValue(node, hasChildren), "fill", rnd[1])
    ELSE st

StrokesRef(n, strokes, st, rnd) ==
  IF Len(GetProp(strokes, "colors")) > 0
    THEN Register(st, n, "strokes", strokes, "stroke", rnd[2])
    ELSE st

VisualsStrokes(n, node, hasChildren, st, rnd) ==
  StrokesRef(n, buildSimplifiedStrokes(node, hasChildren), st, rnd)

VisualsEffects(n, node, st, rnd) ==
  IF Len(node.effects) > 0
    THEN Register(st, n, "effects", node.effects, "effect", rnd[3])
    ELSE st

HasChildren(n) == Children(n) # <<>>

visualsExtractor(n, node, st, rnd) ==
  VisualsEffects(n, node,
    VisualsStrokes(n, node, HasChildren(n),
      VisualsFills(n, node, HasChildren(n), st, rnd), rnd), rnd)

\* A parsePaint call of visualsExtractor throws: on one of the fills, or on
\* one of the visible strokes.
visualsExtractorThrows(node) ==
  \/ \E i \in DOMAIN node.fills : parsePaintThrows(node.fills[i])
  \/ \E i \in DOMAIN node.strokes :
       isVisible(node.strokes[i]) /\ parsePaintThrows(node.strokes[i])

ExtractorThrows(name, node) == name = "visuals" /\ visualsExtractorThrows(node)

componentExtractor(n, node, st, rnd) ==
  IF node.type = "INSTANCE" /\ node.componentId # ""
    THEN [st EXCEPT !.result.componentId = node.componentId]
    ELSE st

ApplyExtractor(name, n, node, st, rnd) ==
  CASE name = "layout" -> layoutExtractor(n, node, st, rnd)
    [] name = "text" -> textExtractor(n, node, st, rnd)
    [] name = "visuals" -> visualsExtractor(n, node, st, rnd)
    [] name = "component" -> componentExtractor(n, node, st, rnd)

allExtractors == <<"layout", "text", "visuals", "component">>

layoutAndText == <<"layout", "text">>

contentOnly == <<"text">>

visualsOnly == <<"visuals">>

layoutOnly == <<"layout">>

ExtractorLists == {allExtractors, layoutAndText, contentOnly, visualsOnly, layoutOnly}

\* --------------------------------------------------------------- traversal
VARIABLES
  kindOf,      \* the raw tree: node -> index of its raw kind in RawKinds
  maxDepth,    \* options.maxDepth, NoLimit when not given
  reject,      \* the nodes options.nodeFilter rejects
  extractors,  \* the extractor list of the walk
  todo,        \* nodes still to be processed, next first: [node, depth]
  cur,         \* the node being visited, [node |-> 0] when none
  pcEx,        \* index of the next extractor to run on cur
  result,      \* node -> its SimplifiedNode fields so far
  emitted,     \* the nodes of the output tree
  styles,      \* context.globalVars.styles
  calls,       \* history of findOrCreateVar calls
  log          \* history of extractor invocations

varsW == <<kindOf, maxDepth, reject, extractors, todo, cur, pcEx, result,
           emitted, styles, calls, log>>

VARIABLES
  nodes,        \* params.nodes of the download_figma_images call
  phase,        \* where the handler is: dedupe, fills, png, svg (each with a
                \* ...Wait while its URL request is in flight), await, done
  items,        \* deduplicatedItems (src: the request an item was made for)
  imageRefMap,  \* the entries of imageRefMap in insertion order
  merged,       \* request -> the item it was merged into, 0 when it has its own
  tasks,        \* the downloadAndProcessImage calls in the order they started
  files,        \* file name -> the state of the file at that path
  unlinks,      \* file names with an fs.unlink issued and not yet performed
  response      \* what the handler returned

varsD == <<nodes, phase, items, imageRefMap, merged, tasks, files, unlinks,
           response>>

VARIABLES
  call,         \* the arguments of one downloadAndProcessImage call
  disk,         \* the image file of that call and its .tmp neighbour
  proc          \* the locals of that call and where it is

varsI == <<call, disk, proc>>

VARIABLES
  arg,          \* the function applied and its arguments
  ret           \* what it returned or threw

varsF == <<arg, ret>>

VARIABLES
  query,        \* the parameters of the get_figma_data call
  gpc,          \* where its handler is: idle, fetch, walking, sent, failed
  fetches,      \* the requests the handler made to the Figma API
  reply         \* what the handler returned

varsG == <<query, gpc, fetches, reply>>

VARIABLES
  work,         \* per invocation: the values its extractors register, in order
  reg,          \* per invocation: the registry its traversal context holds
  refs          \* per invocation: the ids findOrCreateVar returned so far

varsT == <<work, reg, refs>>

\* What an action of one part of the program leaves alone.
notW == <<varsD, varsI, varsF, varsG, varsT>>

notD == <<varsW, varsI, varsF, varsG, varsT>>

notI == <<varsW, varsD, varsF, varsG, varsT>>

notF == <<varsW, varsD, varsI, varsG, varsT>>

notT == <<varsW, varsD, varsI, varsF, varsG>>

NoCur == [node |-> 0, depth |-> 0]

RawNode(n) == RawKinds[kindOf[n]]

InitW ==
  /\ \E pat \in [1 .. PatternLen -> 1 .. NumKinds] :
       kindOf = [n \in Nodes |-> pat[((n - 1) % PatternLen) + 1]]
  /\ maxDepth \in {NoLimit} \cup (0 .. MaxDepthOpt)
  /\ reject \in {{}} \cup {{n} : n \in Nodes}
  /\ extractors \in ExtractorLists
  /\ todo = <<[node |-> 1, depth |-> 0]>>
  /\ cur = NoCur
  /\ pcEx = 0
  /\ result = [n \in Nodes |-> EmptyResult]
  /\ emitted = {}
  /\ styles = EmptyStyles
  /\ calls = <<>>
  /\ log = <<>>

\* nodeFilter accepts the node.
shouldProcessNode(n) == n \notin reject

\* The depth limit compared off by one.
shouldTraverseChildrenOffByOne(d) == maxDepth = NoLimit \/ d <= maxDepth

\* The depth limit allows descending below a node at depth d.
shouldTraverseChildren(d) == maxDepth = NoLimit \/ d < maxDepth

ChildFrames(n, d) ==
  [i \in 1 .. Len(Children(n)) |-> [node |-> Children(n)[i], depth |-> d + 1]]

\* A rejected node dropped alone, its children still processed.
SkipNodeKeepChildren ==
  /\ cur = NoCur
  /\ todo # <<>>
  /\ ~shouldProcessNode(Head(todo).node)
  /\ todo' = ChildFrames(Head(todo).node, Head(todo).depth) \o Tail(todo)
  /\ UNCHANGED <<kindOf, maxDepth, reject, extractors, cur, pcEx, result,
                 emitted, styles, calls, log>>
  /\ UNCHANGED notW

\* The next node is rejected by nodeFilter: it is dropped with its subtree.
SkipNode ==
  /\ cur = NoCur
  /\ todo # <<>>
  /\ ~shouldProcessNode(Head(todo).node)
  /\ todo' = Tail(todo)
  /\ UNCHANGED <<kindOf, maxDepth, reject, extractors, cur, pcEx, result,
                 emitted, styles, calls, log>>
  /\ UNCHANGED notW

\* The next node is accepted: its output record is created.
EnterNode ==
  /\ cur = NoCur
  /\ todo # <<>>
  /\ shouldProcessNode(Head(todo).node)
  /\ cur' = Head(todo)
  /\ todo' = Tail(todo)
  /\ pcEx' = 1
  /\ emitted' = emitted \cup {Head(todo).node}
  /\ UNCHANGED <<kindOf, maxDepth, reject, extractors, result, styles, calls, log>>
  /\ UNCHANGED notW

\* The extractor that is next on cur is name, and it does not throw.
ExtractorReady(name) ==
  /\ pcEx <= Len(extractors)
  /\ extractors[pcEx] = name
  /\ ~ExtractorThrows(name, RawNode(cur.node))

\* The next extractor of the list runs on cur against (node, result, context).
RunExtractor(name, draws) ==
  /\ ExtractorReady(name)
  /\ \E rnd \in [1 .. draws -> 1 .. IdSpace] :
       \E st1 \in {ApplyExtractor(name, cur.node, RawNode(cur.node),
                                   [result |-> result[cur.node],
                                    styles |-> styles, calls |-> calls], rnd)} :
          /\ result' = [result EXCEPT ![cur.node] = st1.result]
          /\ styles' = st1.styles
          /\ calls' = st1.calls
          /\ log' = Append(log, [node |-> cur.node, ex |-> pcEx,
                                 before |-> result[cur.node],
                                 after |-> st1.result])
  /\ pcEx' = pcEx + 1
  /\ UNCHANGED <<kindOf, maxDepth, reject, extractors, todo, cur, emitted>>
  /\ UNCHANGED notW

RunLayout ==
  /\ cur # NoCur
  /\ RunExtractor("layout", 1)

RunText ==
  /\ cur # NoCur
  /\ RunExtractor("text", 1)

RunVisuals ==
  /\ cur # NoCur
  /\ RunExtractor("visuals", 3)

RunComponent ==
  /\ cur # NoCur
  /\ RunExtractor("component", 0)

\* All extractors ran on cur and the depth limit allows its children: they
\* are processed next, in document order, before any sibling of cur.
Descend ==
  /\ cur # NoCur
  /\ pcEx > Len(extractors)
  /\ shouldTraverseChildren(cur.depth)
  /\ todo' = ChildFrames(cur.node, cur.depth) \o todo
  /\ cur' = NoCur
  /\ pcEx' = 0
  /\ UNCHANGED <<kindOf, maxDepth, reject, extractors, result, emitted,
                 styles, calls, log>>
  /\ UNCHANGED notW

\* All extractors ran on cur and cur is at the depth limit: its children are
\* not visited.
StopAtDepth ==
  /\ cur # NoCur
  /\ pcEx > Len(extractors)
  /\ ~shouldTraverseChildren(cur.depth)
  /\ cur' = NoCur
  /\ pcEx' = 0
  /\ UNCHANGED <<kindOf, maxDepth, reject, extractors, todo, result, emitted,
                 styles, calls, log>>
  /\ UNCHANGED notW

WalkDone == cur = NoCur /\ todo = <<>>

NextW ==
  \/ SkipNode
  \/ EnterNode
  \/ RunLayout
  \/ RunText
  \/ RunVisuals
  \/ RunComponent
  \/ Descend
  \/ StopAtDepth

\* ------------------------------------------------------- download requests
\* A file name is its "-"-separated stem segments and its extension:
\* x-ab12.png is [stem |-> <<"x", "ab12">>, ext |-> "png"].  No name, image
\* reference or suffix of the catalogue contains "-", "." or "/" itself.
FileName(stem, ext) == [stem |-> stem, ext |-> ext]

Request(nodeId, imageRef, fileName, suffix, crop, dims) ==
  [nodeId |-> nodeId, imageRef |-> imageRef, fileName |-> fileName,
   filenameSuffix |-> suffix, needsCropping |-> crop,
   requiresImageDimensions |-> dims]

\* The entries a request list is drawn from ("" is an absent optional field).
RequestCatalogue == <<
  Request("1:1", "a", FileName(<<"x">>, "png"), "", FALSE, FALSE),
  Request("1:1", "a", FileName(<<"y">>, "png"), "", FALSE, TRUE),
  Request("1:1", "a", FileName(<<"x">>, "png"), "none", TRUE, FALSE),
  Request("1:4", "b", FileName(<<"x">>, "png"), "", FALSE, FALSE),
  Request("1:2", "", FileName(<<"i">>, "svg"), "", FALSE, FALSE),
  Request("1:3", "", FileName(<<"x">>, "png"), "", FALSE, FALSE),
  Request("1:1", "a", FileName(<<"x">>, "png"), "ab12", TRUE, FALSE)
>>

RequestLists ==
  UNION {[1 .. k -> Range(RequestCatalogue)] : k \in 0 .. MaxReq}

\* fileName.includes(suffix)
Includes(fileName, suffix) ==
  suffix \in Range(fileName.stem) \/ suffix = fileName.ext

\* The file name a request is saved under (lines 83-88 of the tool).
FinalFileName(node) ==
  IF node.filenameSuffix # "" /\ ~Includes(node.fileName, node.filenameSuffix)
    THEN FileName(Append(node.fileName.stem, node.filenameSuffix), node.fileName.ext)
    ELSE node.fileName

\* `${node.imageRef}-${node.filenameSuffix || "none"}`
DedupeKey(node) ==
  <<node.imageRef, IF node.filenameSuffix # "" THEN node.filenameSuffix ELSE "none">>

MapHas(map, key) == \E i \in DOMAIN map : map[i].key = key

MapIndex(map, key) == CHOOSE i \in DOMAIN map : map[i].key = key

\* Map.set: an existing key keeps its place, a new key goes last.
MapSet(map, key, entry) ==
  IF MapHas(map, key)
    THEN [map EXCEPT ![MapIndex(map, key)] = entry]
    ELSE Append(map, entry)

BaseItem(node, r) ==
  [fileName |-> FinalFileName(node),
   needsCropping |-> node.needsCropping,
   requiresImageDimensions |-> node.requiresImageDimensions,
   imageRef |-> "", nodeId |-> "", src |-> r]

\* deduplicatedItems.findIndex(item => item.imageRef === node.imageRef &&
\*   item.fileName === existing.canonicalFileName), 0 when there is none.
FindItem(its, imageRef, fileName) ==
  IF \E i \in DOMAIN its : its[i].imageRef = imageRef /\ its[i].fileName = fileName
    THEN CHOOSE i \in DOMAIN its :
           /\ its[i].imageRef = imageRef /\ its[i].fileName = fileName
           /\ \A k \in 1 .. (i - 1) :
                ~(its[k].imageRef = imageRef /\ its[k].fileName = fileName)
    ELSE 0

MarkDimensions(its, i) ==
  IF i = 0 THEN its ELSE [its EXCEPT ![i].requiresImageDimensions = TRUE]

\* A request whose imageRef is already in the map is added to the entry's
\* requested names and sends nothing of its own.  acc.merged[r] is the item
\* that owns the entry request r was added to (0: r has an item of its own).
MergeRequest(acc, node, e) ==
  [items |-> IF node.requiresImageDimensions
               THEN MarkDimensions(acc.items,
                      FindItem(acc.items, node.imageRef, acc.map[e].canonicalFileName))
               ELSE acc.items,
   map |-> [acc.map EXCEPT ![e].requestedFileNames =
                             Append(@, FinalFileName(node))],
   merged |-> Append(acc.merged, acc.map[e].owner)]

NewFill(acc, node, r) ==
  [items |-> Append(acc.items, [BaseItem(node, r) EXCEPT !.imageRef = node.imageRef]),
   map |-> MapSet(acc.map, DedupeKey(node),
                  [key |-> DedupeKey(node),
                   canonicalFileName |-> FinalFileName(node),
                   requestedFileNames |-> <<FinalFileName(node)>>,
                   owner |-> Len(acc.items) + 1]),
   merged |-> Append(acc.merged, 0)]

NewRender(acc, node, r) ==
  [items |-> Append(acc.items, [BaseItem(node, r) EXCEPT !.nodeId = node.nodeId]),
   map |-> acc.map,
   merged |-> Append(acc.merged, 0)]

\* The body of nodes.forEach for request r.
DedupeStep(acc, node, r) ==
  IF node.imageRef # ""
    THEN IF node.filenameSuffix = "" /\ MapHas(acc.map, DedupeKey(node))
           THEN MergeRequest(acc, node, MapIndex(acc.map, DedupeKey(node)))
           ELSE NewFill(acc, node, r)
    ELSE NewRender(acc, node, r)

RECURSIVE DedupeFrom(_, _, _)
DedupeFrom(acc, reqs, r) ==
  IF r > Len(reqs) THEN acc
  ELSE DedupeFrom(DedupeStep(acc, reqs[r], r), reqs, r + 1)

Deduplicate(reqs) ==
  DedupeFrom([items |-> <<>>, map |-> <<>>, merged |-> <<>>], reqs, 1)

\* --------------------------------------------------------- download handler
LocalPath == "assets"

\* path.join(localPath, fileName)
FullPath(fileName) == <<LocalPath, fileName>>

\* filePath.split("/").pop()
Basename(filePath) == filePath[Len(filePath)]

AllFileNames == {FinalFileName(r) : r \in Range(RequestCatalogue)}

\* kind: "none" before the handler returns, "ok" for a reply with lines.
NoResponse == [kind |-> "none", lines |-> <<>>]

\* isError: true, the text carrying the message of what was thrown.
ErrorResponse(message) == [kind |-> message, lines |-> <<>>]

ItemIndexes(its) == [i \in 1 .. Len(its) |-> i]

IsSvg(fileName) == fileName.ext = "svg"

imageFills(its) == SelectSeq(ItemIndexes(its), LAMBDA i : its[i].imageRef # "")

\* Every item taken as a node to render, whether or not it has a nodeId.
renderNodesAll(its) == ItemIndexes(its)

renderNodes(its) == SelectSeq(ItemIndexes(its), LAMBDA i : its[i].nodeId # "")

pngNodes(its) == SelectSeq(renderNodes(its), LAMBDA i : ~IsSvg(its[i].fileName))

svgNodes(its) == SelectSeq(renderNodes(its), LAMBDA i : IsSvg(its[i].fileName))

\* A downloadAndProcessImage call that has just been made for item i.
NewTask(its, i) ==
  [item |-> i, status |-> "fetching", filePath |-> FullPath(its[i].fileName),
   orphan |-> FALSE]

TasksFor(its, sel) == [k \in 1 .. Len(sel) |-> NewTask(its, sel[k])]

\* The fills with a URL in the answer, each started in list order.
fillDownloads(its, urls) ==
  TasksFor(its, SelectSeq(imageFills(its), LAMBDA i : its[i].imageRef \in urls))

\* The renders of one format with a URL in the answer, started in list order.
renderDownloads(its, sel, urls) ==
  TasksFor(its, SelectSeq(sel, LAMBDA i : its[i].nodeId \in urls))

KeysOf(its, sel, field) == {its[sel[k]][field] : k \in 1 .. Len(sel)}

\* The phase in which the handler awaits the answer to the URL request of a
\* category.
WaitPhase == [fills |-> "fillsWait", png |-> "pngWait", svg |-> "svgWait"]

\* The handler is about to send a URL request to the Figma API.
AwaitsUrlRequest ==
  \/ phase = "fills" /\ imageFills(items) # <<>>
  \/ phase = "png" /\ pngNodes(items) # <<>>
  \/ phase = "svg" /\ svgNodes(items) # <<>>

\* The line of the reply for one result: its file name and its aliases.
ReportLine(map, filePath) ==
  [fileName |-> Basename(filePath),
   aliases |->
     IF \E e \in DOMAIN map : map[e].canonicalFileName = Basename(filePath)
       THEN SelectSeq(
              map[CHOOSE e \in DOMAIN map :
                    /\ map[e].canonicalFileName = Basename(filePath)
                    /\ \A k \in 1 .. (e - 1) :
                         map[k].canonicalFileName # Basename(filePath)].requestedFileNames,
              LAMBDA name : name # Basename(filePath))
       ELSE <<>>]

Report(map, ts) == [t \in 1 .. Len(ts) |-> ReportLine(map, ts[t].filePath)]

InitD ==
  /\ nodes \in RequestLists
  /\ phase = "dedupe"
  /\ items = <<>>
  /\ imageRefMap = <<>>
  /\ merged = <<>>
  /\ tasks = <<>>
  /\ files = [f \in AllFileNames |-> "absent"]
  /\ unlinks = {}
  /\ response = NoResponse

\* nodes.forEach: the requests are folded into deduplicatedItems.
DedupeRequests ==
  /\ phase = "dedupe"
  /\ \E d \in {Deduplicate(nodes)} :
       /\ items' = d.items
       /\ imageRefMap' = d.map
       /\ merged' = d.merged
  /\ phase' = "fills"
  /\ UNCHANGED <<nodes, tasks, files, unlinks, response>>
  /\ UNCHANGED notD

\* downloadImages with no item returns [] at once.
ReturnEmpty ==
  /\ phase = "fills"
  /\ items = <<>>
  /\ phase' = "done"
  /\ response' = [kind |-> "ok", lines |-> <<>>]
  /\ UNCHANGED <<nodes, items, imageRefMap, merged, tasks, files, unlinks>>
  /\ UNCHANGED notD

\* The fill URLs arrive (for any subset of the references) and the download
\* of every fill with a URL is started.
StartFills ==
  /\ \/ phase = WaitPhase.fills
     \/ phase = "fills" /\ items # <<>> /\ imageFills(items) = <<>>
  /\ \E urls \in SUBSET KeysOf(items, imageFills(items), "imageRef") :
       tasks' = tasks \o fillDownloads(items, urls)
  /\ phase' = "png"
  /\ UNCHANGED <<nodes, items, imageRefMap, merged, files, unlinks, response>>
  /\ UNCHANGED notD

StartPng ==
  /\ \/ phase = WaitPhase.png
     \/ phase = "png" /\ pngNodes(items) = <<>>
  /\ \E urls \in SUBSET KeysOf(items, pngNodes(items), "nodeId") :
       tasks' = tasks \o renderDownloads(items, pngNodes(items), urls)
  /\ phase' = "svg"
  /\ UNCHANGED <<nodes, items, imageRefMap, merged, files, unlinks, response>>
  /\ UNCHANGED notD

StartSvg ==
  /\ \/ phase = WaitPhase.svg
     \/ phase = "svg" /\ svgNodes(items) = <<>>
  /\ \E urls \in SUBSET KeysOf(items, svgNodes(items), "nodeId") :
       tasks' = tasks \o renderDownloads(items, svgNodes(items), urls)
  /\ phase' = "await"
  /\ UNCHANGED <<nodes, items, imageRefMap, merged, files, unlinks, response>>
  /\ UNCHANGED notD

\* The URL request of the next category is sent and awaited: nothing else
\* of the handler runs until it is answered.
IssueUrlRequest ==
  /\ AwaitsUrlRequest
  /\ phase' = WaitPhase[phase]
  /\ UNCHANGED <<nodes, items, imageRefMap, merged, tasks, files, unlinks, response>>
  /\ UNCHANGED notD

\* A URL request throws: downloadImages rejects and the handler's catch
\* answers with an error.  The downloads already started go on.
UrlRequestFails ==
  /\ phase \in {WaitPhase.fills, WaitPhase.png, WaitPhase.svg}
  /\ phase' = "done"
  /\ response' = ErrorResponse("request failed")
  /\ UNCHANGED <<nodes, items, imageRefMap, merged, tasks, files, unlinks>>
  /\ UNCHANGED notD

\* fetch throws or the response is not ok: nothing was opened.
FetchFails ==
  /\ \E t \in DOMAIN tasks :
       /\ tasks[t].status = "fetching"
       /\ tasks' = [tasks EXCEPT ![t].status = "failed"]
  /\ UNCHANGED <<nodes, phase, items, imageRefMap, merged, files, unlinks, response>>
  /\ UNCHANGED notD

\* The file is opened for writing, the response has no body: the call throws.
FetchNoBody ==
  /\ \E t \in DOMAIN tasks :
       /\ tasks[t].status = "fetching"
       /\ tasks' = [tasks EXCEPT ![t].status = "failed"]
       /\ files' = [files EXCEPT ![Basename(tasks[t].filePath)] = "partial"]
  /\ UNCHANGED <<nodes, phase, items, imageRefMap, merged, unlinks, response>>
  /\ UNCHANGED notD

\* fs.createWriteStream(fullPath): the file is created or truncated and the
\* body starts to be written into it.
OpenStream ==
  /\ \E t \in DOMAIN tasks :
       /\ tasks[t].status = "fetching"
       /\ tasks' = [tasks EXCEPT ![t].status = "streaming"]
       /\ files' = [files EXCEPT ![Basename(tasks[t].filePath)] = "partial"]
  /\ UNCHANGED <<nodes, phase, items, imageRefMap, merged, unlinks, response>>
  /\ UNCHANGED notD

\* The writer finishes: downloadFigmaImage resolves with the path.  A writer
\* whose file was unlinked meanwhile finishes a file no path leads to.
StreamFinish ==
  /\ \E t \in DOMAIN tasks :
       /\ tasks[t].status = "streaming"
       /\ tasks' = [tasks EXCEPT ![t].status = "written"]
       /\ files' = IF tasks[t].orphan THEN files
                   ELSE [files EXCEPT ![Basename(tasks[t].filePath)] = "complete"]
  /\ UNCHANGED <<nodes, phase, items, imageRefMap, merged, unlinks, response>>
  /\ UNCHANGED notD

\* Reading the body or writing the file fails: fs.unlink is issued and the
\* call rejects.
StreamError ==
  /\ \E t \in DOMAIN tasks :
       /\ tasks[t].status = "streaming"
       /\ tasks' = [tasks EXCEPT ![t].status = "failed"]
       /\ unlinks' = unlinks \cup {Basename(tasks[t].filePath)}
  /\ UNCHANGED <<nodes, phase, items, imageRefMap, merged, files, response>>
  /\ UNCHANGED notD

\* An issued fs.unlink is performed: whatever is at the path is removed, and
\* the writers that had it open go on writing a file without a path.
Unlink ==
  /\ \E f \in unlinks :
       /\ unlinks' = unlinks \ {f}
       /\ files' = [files EXCEPT ![f] = "absent"]
       /\ tasks' = [t \in DOMAIN tasks |->
                      IF tasks[t].status = "streaming" /\ Basename(tasks[t].filePath) = f
                        THEN [tasks[t] EXCEPT !.orphan = TRUE]
                        ELSE tasks[t]]
  /\ UNCHANGED <<nodes, phase, items, imageRefMap, merged, response>>
  /\ UNCHANGED notD

\* The downloaded file is measured and cropped: the call resolves.
ProcessImage ==
  /\ \E t \in DOMAIN tasks :
       /\ tasks[t].status = "written"
       /\ tasks' = [tasks EXCEPT ![t].status = "ok"]
  /\ UNCHANGED <<nodes, phase, items, imageRefMap, merged, files, unlinks, response>>
  /\ UNCHANGED notD

\* Promise.all resolves: every download resolved, the results are reported
\* in the order the downloads were started.
HandlerResolves ==
  /\ phase = "await"
  /\ \A t \in DOMAIN tasks : tasks[t].status = "ok"
  /\ phase' = "done"
  /\ response' = [kind |-> "ok", lines |-> Report(imageRefMap, tasks)]
  /\ UNCHANGED <<nodes, items, imageRefMap, merged, tasks, files, unlinks>>
  /\ UNCHANGED notD

\* Promise.all rejects with the first rejection: the handler's catch answers
\* with an error, whatever the other downloads did or will do.
HandlerRejects ==
  /\ phase = "await"
  /\ \E t \in DOMAIN tasks : tasks[t].status = "failed"
  /\ phase' = "done"
  /\ response' = ErrorResponse("download failed")
  /\ UNCHANGED <<nodes, items, imageRefMap, merged, tasks, files, unlinks>>
  /\ UNCHANGED notD

NextD ==
  \/ DedupeRequests
  \/ ReturnEmpty
  \/ IssueUrlRequest
  \/ StartFills
  \/ StartPng
  \/ StartSvg
  \/ UrlRequestFails
  \/ FetchFails
  \/ FetchNoBody
  \/ OpenStream
  \/ StreamFinish
  \/ StreamError
  \/ Unlink
  \/ ProcessImage
  \/ HandlerResolves
  \/ HandlerRejects

\* -------------------------------------------------- image post-processing
\* One downloadAndProcessImage call from the moment its download resolved.
\* The handler model above takes the whole of it as its ProcessImage step.
\* Transform entries are in hundredths, pixel sizes are integers.
DefaultDimension == 1000

Dims == {3, MaxDim}

\* What a file holds: the rectangle of the downloaded picture it shows, or
\* bytes sharp cannot read, or nothing.
Image(l, t, w, h) == [kind |-> "image", left |-> l, top |-> t, width |-> w, height |-> h]

Unreadable == [kind |-> "unreadable", left |-> 0, top |-> 0, width |-> 0, height |-> 0]

AbsentFile == [kind |-> "absent", left |-> 0, top |-> 0, width |-> 0, height |-> 0]

Downloads == {Image(0, 0, w, h) : w \in Dims, h \in Dims} \cup {Unreadable}

NoDimensions == [width |-> 0, height |-> 0]

NoRegion == [left |-> 0, top |-> 0, width |-> 0, height |-> 0]

NoCssVariables == <<>>

\* Math.round(t * size) for t in hundredths.
RoundScaled(t, size) == RoundDiv(t * size, 100)

\* sharp(imagePath).metadata() succeeds and has a width and a height.
HasMetadata(content) == content.kind = "image" /\ content.width # 0 /\ content.height # 0

getImageDimensions(content) ==
  IF HasMetadata(content)
    THEN [width |-> content.width, height |-> content.height]
    ELSE [width |-> DefaultDimension, height |-> DefaultDimension]

cropLeft(t, d) == Max(0, RoundScaled(t.translateX, d.width))

cropTop(t, d) == Max(0, RoundScaled(t.translateY, d.height))

cropWidth(t, d) == Minimum(d.width - cropLeft(t, d), RoundScaled(t.scaleX, d.width))

cropHeight(t, d) == Minimum(d.height - cropTop(t, d), RoundScaled(t.scaleY, d.height))

\* The crop region for transform t on a picture of dimensions d.
CropRegionOf(t, d) ==
  [left |-> cropLeft(t, d), top |-> cropTop(t, d),
   width |-> cropWidth(t, d), height |-> cropHeight(t, d)]

\* A region with no pixel counted as one to extract.
ValidCropAllowsEmpty(r) == r.width >= 0 /\ r.height >= 0

\* cropWidth > 0 && cropHeight > 0
ValidCrop(r) == r.width > 0 /\ r.height > 0

\* image.extract(region) of a file holding content.
Extract(content, r) ==
  Image(content.left + r.left, content.top + r.top, r.width, r.height)

generateImageCSSVariables(d) ==
  <<"--original-width: ", d.width, "px; --original-height: ", d.height, "px;">>

\* The CSS variables made whether or not they were asked for.
cssVariablesAlways(requiresImageDimensions, finalDimensions) ==
  generateImageCSSVariables(finalDimensions)

\* if (requiresImageDimensions) cssVariables = generateImageCSSVariables(...)
cssVariablesFor(requiresImageDimensions, finalDimensions) ==
  IF requiresImageDimensions
    THEN generateImageCSSVariables(finalDimensions)
    ELSE NoCssVariables

\* needsCropping && cropTransform
CropRequested == call.needsCropping /\ call.cropTransform.present

InitI ==
  /\ call \in [needsCropping : BOOLEAN,
               cropTransform : Transforms \cup {NoTransform},
               requiresImageDimensions : BOOLEAN]
  /\ \E d \in Downloads :
       /\ disk = [file |-> d, tmp |-> AbsentFile]
       /\ proc = [pc |-> "downloaded", downloaded |-> d,
                  originalDimensions |-> NoDimensions,
                  finalDimensions |-> NoDimensions,
                  wasCropped |-> FALSE, cropRegion |-> NoRegion,
                  cssVariables |-> NoCssVariables]

\* const originalDimensions = await getImageDimensions(originalPath)
MeasureOriginal ==
  /\ proc.pc = "downloaded"
  /\ proc' = [proc EXCEPT !.pc = "measured",
                          !.originalDimensions = getImageDimensions(disk.file)]
  /\ UNCHANGED <<call, disk>>
  /\ UNCHANGED notI

\* No crop is requested, or the computed region has no pixels: the original
\* file is kept.
KeepOriginal ==
  /\ proc.pc = "measured"
  /\ ~(CropRequested /\ ValidCrop(CropRegionOf(call.cropTransform, proc.originalDimensions)))
  /\ proc' = [proc EXCEPT !.pc = "processed"]
  /\ UNCHANGED <<call, disk>>
  /\ UNCHANGED notI

\* The computed region has pixels: it is recorded and applyCropTransform is
\* called.
BeginCrop ==
  /\ proc.pc = "measured"
  /\ CropRequested
  /\ ValidCrop(CropRegionOf(call.cropTransform, proc.originalDimensions))
  /\ proc' = [proc EXCEPT !.pc = "cropping",
                          !.cropRegion = CropRegionOf(call.cropTransform,
                                                      proc.originalDimensions)]
  /\ UNCHANGED <<call, disk>>
  /\ UNCHANGED notI

\* applyCropTransform reads the metadata of the file itself, computes the
\* region again and extracts it into imagePath + ".tmp".
ExtractToTemp ==
  /\ proc.pc = "cropping"
  /\ HasMetadata(disk.file)
  /\ ValidCrop(CropRegionOf(call.cropTransform, getImageDimensions(disk.file)))
  /\ disk' = [disk EXCEPT !.tmp =
                Extract(disk.file,
                        CropRegionOf(call.cropTransform, getImageDimensions(disk.file)))]
  /\ proc' = [proc EXCEPT !.pc = "renaming"]
  /\ UNCHANGED call
  /\ UNCHANGED notI

\* applyCropTransform throws inside (no metadata, sharp fails to extract or
\* to write) or finds its own region empty: the catch or the early return
\* hands back the path of the untouched file, and the caller sets wasCropped.
CropReturnsOriginal ==
  /\ proc.pc = "cropping"
  /\ proc' = [proc EXCEPT !.pc = "processed", !.wasCropped = TRUE]
  /\ UNCHANGED <<call, disk>>
  /\ UNCHANGED notI

\* fs.renameSync(tempPath, imagePath), then wasCropped = true in the caller.
RenameTemp ==
  /\ proc.pc = "renaming"
  /\ disk' = [file |-> disk.tmp, tmp |-> AbsentFile]
  /\ proc' = [proc EXCEPT !.pc = "processed", !.wasCropped = TRUE]
  /\ UNCHANGED call
  /\ UNCHANGED notI

\* The final file is measured, the CSS variables are made when asked for and
\* the result is returned.
ReturnResult ==
  /\ proc.pc = "processed"
  /\ proc' = [proc EXCEPT !.pc = "returned",
                          !.finalDimensions = getImageDimensions(disk.file),
                          !.cssVariables =
                             cssVariablesFor(call.requiresImageDimensions,
                                             getImageDimensions(disk.file))]
  /\ UNCHANGED <<call, disk>>
  /\ UNCHANGED notI

NextI ==
  \/ MeasureOriginal
  \/ KeepOriginal
  \/ BeginCrop
  \/ ExtractToTemp
  \/ CropReturnsOriginal
  \/ RenameTemp
  \/ ReturnResult

\* ------------------------------------------------------- pure transformers
\* One call of a transformer on arguments drawn from the sets below.
Channels == {0, 500, 1000}

Alphas == {0, 25, 50, 100}

SolidPaints ==
  [type : {"SOLID"}, visible : {TRUE}, r : Channels, g : {0, 1000}, b : Channels,
   a : Alphas, opacity : Alphas]

\* The scale modes of the Figma REST API, and one it does not have.
ScaleModes == {"FILL", "FIT", "TILE", "STRETCH"}

UniformTransforms ==
  {t \in Transforms : t.scaleX = t.scaleY /\ t.translateX = t.translateY}

ImagePaints ==
  [type : {"IMAGE"}, visible : {TRUE}, imageRef : {"a"},
   scaleMode : ScaleModes \cup {"CROP"}, scalingFactor : {0, 50},
   imageTransform : UniformTransforms \cup {NoTransform}]

\* Paint types of the API that parsePaint has no branch for.
OtherPaints == [type : {"EMOJI", "VIDEO"}, visible : {TRUE}]

PatternPaints ==
  [type : {"PATTERN"}, visible : {TRUE}, sourceNodeId : {"1:2"},
   horizontalAlignment : {"START", "CENTER", "END"},
   verticalAlignment : {"START", "END"}, scalingFactor : {50}]

HandleCoords == {0, 50, 100}

Handles == [x : HandleCoords, y : HandleCoords]

StopColor(r) == [r |-> r, g |-> 0, b |-> 0, a |-> 100]

\* Two stops, in either order of position.
StopLists ==
  {<<[position |-> p, color |-> StopColor(1000)],
     [position |-> q, color |-> StopColor(0)]>> : p \in {0, 50, 100}, q \in {25, 50}}

\* Linear gradients with two handles, and one with none.
LinearGradients ==
  [type : {"GRADIENT_LINEAR"}, visible : {TRUE}, gradientStops : StopLists,
   gradientHandlePositions : [1 .. 2 -> Handles] \cup {<<>>}]

EdgeValues == [1 .. 4 -> 0 .. MaxEdge]

\* ------------------------------------------------------- response size gate
DecimalDigits == <<"0", "1", "2", "3", "4", "5", "6", "7", "8", "9">>

IsDecimalDigit(c) == \E d \in DOMAIN DecimalDigits : DecimalDigits[d] = c

DigitValue(c) == (CHOOSE d \in DOMAIN DecimalDigits : DecimalDigits[d] = c) - 1

\* The value of the leading decimal digits of text, from the value so far.
RECURSIVE LeadingDigits(_, _)
LeadingDigits(text, sofar) ==
  IF text = <<>> \/ ~IsDecimalDigit(Head(text)) THEN sofar
  ELSE LeadingDigits(Tail(text), 10 * sofar + DigitValue(Head(text)))

NumberValue(n) == [kind |-> "number", n |-> n]

NaNValue == [kind |-> "NaN", n |-> 0]

UndefinedValue == [kind |-> "undefined", n |-> 0]

\* parseInt of a text without sign or leading blanks: the leading digits, NaN
\* when there is none.
parseInt(text) ==
  IF text = <<>> \/ ~IsDecimalDigit(Head(text)) THEN NaNValue
  ELSE NumberValue(LeadingDigits(text, 0))

\* process.env.GET_NODE_SIZE_LIMIT ? parseInt(...) : undefined; an unset
\* variable and an empty one are both <<>>.
sizeLimit(env) == IF env # <<>> THEN parseInt(env) ELSE UndefinedValue

\* JavaScript truthiness of a number or undefined.
Truthy(v) == v.kind = "number" /\ v.n # 0

\* round(utf8Bytes.length / 1024, 2), in hundredths of a KB.
calcStringSize(bytes) == RoundDiv(bytes * 100, 1024)

SizeExceeded == [isError |-> TRUE, text |-> <<"exceeded the limit">>]

FormattedDocument(bytes) == [isError |-> FALSE, text |-> <<"document", bytes>>]

\* The end of the get_figma_data handler for a formatted document of the
\* given UTF-8 length.
sizeCheckedResult(env, bytes) ==
  IF Truthy(sizeLimit(env)) /\ calcStringSize(bytes) > sizeLimit(env).n * 100
    THEN SizeExceeded
    ELSE FormattedDocument(bytes)

\* The decimal text of a limit below ten.
LimitText(L) == <<DecimalDigits[L + 1]>>

EnvTexts == {<<>>, <<"a">>} \cup {LimitText(L) : L \in 0 .. MaxLimit}

\* Document lengths around the whole kilobytes up to one above the limits.
DocumentSizes ==
  {k * 1024 + d : k \in 0 .. (MaxLimit + 1), d \in (0 - SizeSlack) .. SizeSlack}
    \cap Nat

FnInputs ==
  [fn : {"parsePaint"},
   raw : SolidPaints \cup ImagePaints \cup OtherPaints \cup PatternPaints
           \cup LinearGradients,
   hasChildren : BOOLEAN]
    \cup [fn : {"generateCSSShorthand"}, values : EdgeValues]
    \cup [fn : {"get_figma_data"}, env : EnvTexts, bytes : DocumentSizes]

NotReturned == [done |-> FALSE, threw |-> FALSE, value |-> <<>>]

InitF ==
  /\ arg \in FnInputs
  /\ ret = NotReturned

CallParsePaint ==
  /\ ~ret.done
  /\ arg.fn = "parsePaint"
  /\ ret' = [done |-> TRUE, threw |-> parsePaintThrows(arg.raw),
             value |-> parsePaint(arg.raw, arg.hasChildren)]
  /\ UNCHANGED arg
  /\ UNCHANGED notF

CallGenerateCSSShorthand ==
  /\ ~ret.done
  /\ arg.fn = "generateCSSShorthand"
  /\ ret' = [done |-> TRUE, threw |-> FALSE,
             value |-> generateCSSShorthand(arg.values)]
  /\ UNCHANGED arg
  /\ UNCHANGED notF

CallGetFigmaData ==
  /\ ~ret.done
  /\ arg.fn = "get_figma_data"
  /\ ret' = [done |-> TRUE, threw |-> FALSE,
             value |-> sizeCheckedResult(arg.env, arg.bytes)]
  /\ UNCHANGED arg
  /\ UNCHANGED notF

NextF ==
  \/ CallParsePaint
  \/ CallGenerateCSSShorthand
  \/ CallGetFigmaData

\* -------------------------------------------------- get_figma_data handler
\* The parameters of a call: nodeId "" and depth NoLimit are absent ones.
FileKeys == {"k1"}

NodeIds == {"", "1:2"}

Queries ==
  [fileKey : FileKeys, nodeId : NodeIds,
   depth : {NoLimit} \cup (0 .. MaxDepthOpt)]

\* The messages fetchWithRetry fails with.
Causes == {"Fetch failed with status 403", "socket hang up"}

\* depth ? `${sep}depth=${depth}` : ""
DepthParam(sep, depth) ==
  IF depth # NoLimit /\ depth # 0
    THEN <<sep, "depth=">> \o DecTokens(depth) ELSE <<>>

\* The endpoint of getRawFile.
FileEndpoint(fileKey, depth) ==
  <<"/files/", fileKey>> \o DepthParam("?", depth)

\* The endpoint of getRawNode.
NodeEndpoint(fileKey, nodeId, depth) ==
  <<"/files/", fileKey, "/nodes?ids=", nodeId>> \o DepthParam("&", depth)

\* The endpoint the handler asks for: if (nodeId) getRawNode else getRawFile.
Endpoint(q) ==
  IF q.nodeId # ""
    THEN NodeEndpoint(q.fileKey, q.nodeId, q.depth)
    ELSE FileEndpoint(q.fileKey, q.depth)

\* The message of the error request throws, with only the cause in it.
RequestErrorBare(endpoint, cause) ==
  <<"Failed to make request to Figma API: ", cause>>

\* The message of the error request throws when fetchWithRetry failed.
RequestError(endpoint, cause) ==
  <<"Failed to make request to Figma API endpoint '">> \o endpoint
    \o <<"': ", cause>>

NoDocument == [present |-> FALSE, nodes |-> {}, styles |-> EmptyStyles]

NotReplied ==
  [returned |-> FALSE, isError |-> FALSE, text |-> <<>>, document |-> NoDocument]

\* The result of the catch block: isError and one text item.
ErrorResult(message) ==
  [returned |-> TRUE, isError |-> TRUE,
   text |-> <<"Error fetching file: ">> \o message, document |-> NoDocument]

\* The result of the try block: one text item, the formatted document.
DocumentResult(nodeSet, globalVars) ==
  [returned |-> TRUE, isError |-> FALSE, text |-> <<"formattedResult">>,
   document |-> [present |-> TRUE, nodes |-> nodeSet, styles |-> globalVars]]

\* The paints visualsExtractor converts, in the order it converts them.
ConvertedPaints(node) == node.fills \o SelectSeq(node.strokes, isVisible)

\* error.message of what the first failing parsePaint call threw.
ThrownMessage(node) ==
  Tail(UnknownPaintType(Head(SelectSeq(ConvertedPaints(node), parsePaintThrows)).type))

InitG ==
  /\ query \in Queries
  /\ gpc = "fetch"
  /\ fetches = <<>>
  /\ reply = NotReplied
  /\ \E pat \in [1 .. PatternLen -> 1 .. AllKinds] :
       kindOf = [n \in Nodes |-> pat[((n - 1) % PatternLen) + 1]]
  /\ maxDepth = query.depth
  /\ reject = {}
  /\ extractors = allExtractors
  /\ todo = <<>>
  /\ cur = NoCur
  /\ pcEx = 0
  /\ result = [n \in Nodes |-> EmptyResult]
  /\ emitted = {}
  /\ styles = EmptyStyles
  /\ calls = <<>>
  /\ log = <<>>

\* The raw response arrived: simplifyRawFigmaObject starts on its root.
FetchRaw ==
  /\ gpc = "fetch"
  /\ gpc' = "walking"
  /\ fetches' = Append(fetches, Endpoint(query))
  /\ todo' = <<[node |-> 1, depth |-> 0]>>
  /\ UNCHANGED <<query, reply>>
  /\ UNCHANGED <<kindOf, maxDepth, reject, extractors, cur, pcEx, result,
                 emitted, styles, calls, log>>
  /\ UNCHANGED <<varsD, varsI, varsF, varsT>>

\* fetchWithRetry failed: request rethrows, the catch block answers.
FetchThrows ==
  /\ gpc = "fetch"
  /\ gpc' = "failed"
  /\ fetches' = Append(fetches, Endpoint(query))
  /\ \E cause \in Causes :
       reply' = ErrorResult(RequestError(Endpoint(query), cause))
  /\ UNCHANGED query
  /\ UNCHANGED <<varsW, varsD, varsI, varsF, varsT>>

\* The extractor that is next on cur throws: the extraction is abandoned and
\* the catch block answers.
ExtractionThrows ==
  /\ gpc = "walking"
  /\ cur # NoCur
  /\ pcEx <= Len(extractors)
  /\ ExtractorThrows(extractors[pcEx], RawNode(cur.node))
  /\ gpc' = "failed"
  /\ reply' = ErrorResult(ThrownMessage(RawNode(cur.node)))
  /\ todo' = <<>>
  /\ cur' = NoCur
  /\ pcEx' = 0
  /\ UNCHANGED <<query, fetches>>
  /\ UNCHANGED <<kindOf, maxDepth, reject, extractors, result, emitted,
                 styles, calls, log>>
  /\ UNCHANGED <<varsD, varsI, varsF, varsT>>

\* The extraction finished: the formatted document is returned.
SendResult ==
  /\ gpc = "walking"
  /\ WalkDone
  /\ gpc' = "sent"
  /\ reply' = DocumentResult(emitted, styles)
  /\ UNCHANGED <<query, fetches>>
  /\ UNCHANGED <<varsW, varsD, varsI, varsF, varsT>>

NextG ==
  \/ FetchRaw
  \/ FetchThrows
  \/ ExtractionThrows
  \/ SendResult
  \/ EnterNode
  \/ RunLayout
  \/ RunText
  \/ RunVisuals
  \/ RunComponent
  \/ Descend
  \/ StopAtDepth

\* ------------------------------------------------------- two invocations
\* Two extractions, each with its own traversal context, whose
\* findOrCreateVar calls interleave in any order.
Invocations == {1, 2}

\* What the extractors of an invocation pass to findOrCreateVar.
Registrations ==
  {[value |-> RawKinds[2].layout, prefix |-> "layout"],
   [value |-> FillsValue(RawKinds[2], FALSE), prefix |-> "fill"],
   [value |-> RawKinds[3].effects, prefix |-> "effect"]}

WorkLists == UNION {[1 .. k -> Registrations] : k \in 0 .. MaxWork}

\* Every invocation's context loses its own registry for the first one's.
ContextRegistryShared(inv) == 1

\* context.globalVars of invocation inv: the registry made for it.
ContextRegistry(inv) == inv

InitT ==
  /\ work \in [Invocations -> WorkLists]
  /\ reg = [inv \in Invocations |-> EmptyStyles]
  /\ refs = [inv \in Invocations |-> <<>>]

\* The next findOrCreateVar call of invocation inv.
ExtractStep(inv) ==
  /\ Len(refs[inv]) < Len(work[inv])
  /\ \E rnd \in 1 .. IdSpace :
       \E f \in {findOrCreateVar(reg[ContextRegistry(inv)],
                                 work[inv][Len(refs[inv]) + 1].value,
                                 work[inv][Len(refs[inv]) + 1].prefix, rnd)} :
         /\ reg' = [reg EXCEPT ![ContextRegistry(inv)] = f.styles]
         /\ refs' = [refs EXCEPT ![inv] = Append(@, f.id)]
  /\ UNCHANGED work
  /\ UNCHANGED notT

FirstExtracts ==
  /\ 1 \in Invocations
  /\ ExtractStep(1)

SecondExtracts ==
  /\ 2 \in Invocations
  /\ ExtractStep(2)

NextT ==
  \/ FirstExtracts
  \/ SecondExtracts

\* ------------------------------------------------------------ specifications
\* No traversal is under way.
IdleW ==
  /\ kindOf = [n \in Nodes |-> 1]
  /\ maxDepth = NoLimit
  /\ reject = {}
  /\ extractors = layoutOnly
  /\ todo = <<>>
  /\ cur = NoCur
  /\ pcEx = 0
  /\ result = [n \in Nodes |-> EmptyResult]
  /\ emitted = {}
  /\ styles = EmptyStyles
  /\ calls = <<>>
  /\ log = <<>>

\* No download call is under way.
IdleD ==
  /\ nodes = <<>>
  /\ phase = "done"
  /\ items = <<>>
  /\ imageRefMap = <<>>
  /\ merged = <<>>
  /\ tasks = <<>>
  /\ files = [f \in AllFileNames |-> "absent"]
  /\ unlinks = {}
  /\ response = NoResponse

\* No downloadAndProcessImage call is looked at.
IdleI ==
  /\ call = [needsCropping |-> FALSE, cropTransform |-> NoTransform,
             requiresImageDimensions |-> FALSE]
  /\ disk = [file |-> AbsentFile, tmp |-> AbsentFile]
  /\ proc = [pc |-> "idle", downloaded |-> AbsentFile,
             originalDimensions |-> NoDimensions,
             finalDimensions |-> NoDimensions,
             wasCropped |-> FALSE, cropRegion |-> NoRegion,
             cssVariables |-> NoCssVariables]

\* No transformer call is looked at.
IdleF ==
  /\ arg = [fn |-> "none"]
  /\ ret = NotReturned

\* No get_figma_data call is under way.
\* No pair of invocations is looked at.
IdleT ==
  /\ work = [inv \in Invocations |-> <<>>]
  /\ reg = [inv \in Invocations |-> EmptyStyles]
  /\ refs = [inv \in Invocations |-> <<>>]

\* No get_figma_data call is under way.
IdleG ==
  /\ query = [fileKey |-> "", nodeId |-> "", depth |-> NoLimit]
  /\ gpc = "idle"
  /\ fetches = <<>>
  /\ reply = NotReplied

vars == <<varsW, varsD, varsI, varsF, varsG, varsT>>

\* One get_figma_data extraction.
Init == InitW /\ IdleD /\ IdleI /\ IdleF /\ IdleG /\ IdleT

Next == NextW

Spec == Init /\ [][Next]_vars

\* One download_figma_images call.
InitDl == IdleW /\ InitD /\ IdleI /\ IdleF /\ IdleG /\ IdleT

NextDl == NextD

SpecDl == InitDl /\ [][NextDl]_vars

\* One downloadAndProcessImage call after its download.
InitImg == IdleW /\ IdleD /\ InitI /\ IdleF /\ IdleG /\ IdleT

NextImg == NextI

SpecImg == InitImg /\ [][NextImg]_vars

\* One call of a transformer.
InitFn == IdleW /\ IdleD /\ IdleI /\ InitF /\ IdleG /\ IdleT

NextFn == NextF

SpecFn == InitFn /\ [][NextFn]_vars

\* Two extractions side by side.
InitTwo == IdleW /\ IdleD /\ IdleI /\ IdleF /\ IdleG /\ InitT

NextTwo == NextT

SpecTwo == InitTwo /\ [][NextTwo]_vars

\* One get_figma_data call.
InitGet == InitG /\ IdleD /\ IdleI /\ IdleF /\ IdleT

NextGet == NextG

SpecGet == InitGet /\ [][NextGet]_vars

\* ------------------------------------------------------ registry properties
MissesAdded ==
  Cardinality({i \in DOMAIN calls' : i > Len(calls) /\ calls'[i].miss})

\* C1: within one traversal any two findOrCreateVar calls whose values are
\* structurally equal (whatever the insertion order of their properties)
\* returned the same id, and the registry holds exactly one entry for that
\* value.
C1_EqualValuesShareOneId ==
  \A i \in DOMAIN calls :
    /\ \A j \in DOMAIN calls :
         StructEq(calls[i].value, calls[j].value) => calls[i].id = calls[j].id
    /\ Cardinality({id \in StyleKeys(styles) :
                      StructEq(styles[id], calls[i].value)}) = 1

\* C2: the registry is append-only: no step changes or removes the value
\* stored under an existing id, and every miss of the step adds exactly one
\* new entry.
C2_AppendOnly ==
  [][/\ \A id \in StyleKeys(styles) : styles'[id] = styles[id]
     /\ Cardinality(StyleKeys(styles')) =
          Cardinality(StyleKeys(styles)) + MissesAdded]_vars

\* ----------------------------------------------------- traversal properties
Descendants(x) == {d \in Nodes : IsAncestorOrSelf(x, d)}

\* C3: a node rejected by nodeFilter and all its descendants are absent from
\* the output, no extractor ran on them and no registry call came from them.
C3_FilterExcludesSubtree ==
  \A x \in reject : \A d \in Descendants(x) :
    /\ d \notin emitted
    /\ result[d] = EmptyResult
    /\ \A i \in DOMAIN log : log[i].node # d
    /\ \A i \in DOMAIN calls : calls[i].node # d

\* A finished walk that reached a rejected inner node whose children pass
\* the filter, with extractors having written registry entries elsewhere.
C3_Witness ==
  /\ WalkDone
  /\ maxDepth = NoLimit
  /\ calls # <<>>
  /\ \E x \in reject :
       /\ x # 1
       /\ Parent(x) \in emitted
       /\ Children(x) # <<>>
       /\ \A i \in DOMAIN Children(x) : shouldProcessNode(Children(x)[i])

\* C4: with maxDepth = k no output node lies deeper than k, no extractor ran
\* on a node deeper than k, and every registry entry was created by a call
\* made for a node within depth k.
C4_DepthLimit ==
  maxDepth # NoLimit =>
    /\ \A n \in emitted : DepthOf(n) <= maxDepth
    /\ \A i \in DOMAIN log : DepthOf(log[i].node) <= maxDepth
    /\ \A i \in DOMAIN calls : DepthOf(calls[i].node) <= maxDepth
    /\ \A id \in StyleKeys(styles) :
         \E i \in DOMAIN calls :
           calls[i].miss /\ calls[i].id = id /\ DepthOf(calls[i].node) <= maxDepth

\* A finished walk with a depth limit smaller than the depth of the tree
\* that emitted a node at the limit which has children in the raw tree.
C4_Witness ==
  /\ WalkDone
  /\ maxDepth # NoLimit
  /\ maxDepth < TreeDepth
  /\ StyleKeys(styles) # {}
  /\ \E n \in emitted : DepthOf(n) = maxDepth /\ Children(n) # <<>>

\* The nodes of the output in depth-first pre-order document order, from the
\* raw tree and the options alone.
RECURSIVE Preorder(_, _)
RECURSIVE PreorderAll(_, _)
Preorder(n, d) ==
  IF n \in reject THEN <<>>
  ELSE <<n>> \o (IF maxDepth = NoLimit \/ d < maxDepth
                   THEN PreorderAll(Children(n), d + 1) ELSE <<>>)
PreorderAll(ns, d) ==
  IF ns = <<>> THEN <<>> ELSE Preorder(Head(ns), d) \o PreorderAll(Tail(ns), d)

ResultFields == {"layout", "textStyle", "fills", "strokes", "effects",
                 "text", "componentId"}

\* C5: the extractor invocations are exactly, node after node in pre-order,
\* extractors 1..M in the order given, each once per node; an invocation
\* starts from the partial result its predecessor left, and so sees every
\* write an earlier extractor made for that node.
C5_SingleVisitInOrder ==
  LET M == Len(extractors)
      P == Preorder(1, 0)
  IN /\ Len(log) <= M * Len(P)
     /\ WalkDone => (Len(log) = M * Len(P) /\ emitted = Range(P))
     /\ \A i \in DOMAIN log :
          /\ log[i].node = P[((i - 1) \div M) + 1]
          /\ log[i].ex = ((i - 1) % M) + 1
          /\ log[i].before = IF log[i].ex = 1 THEN EmptyResult ELSE log[i - 1].after
          /\ \A k \in DOMAIN log : \A f \in ResultFields :
               (k < i /\ log[k].node = log[i].node
                  /\ log[k].after[f] # log[k].before[f])
                 => log[i].before[f] = log[k].after[f]

\* A finished walk of all four extractors over the whole tree in which a
\* later extractor started from a result an earlier one had written to.
C5_Witness ==
  /\ WalkDone
  /\ Len(extractors) = 4
  /\ emitted = Nodes
  /\ \E i \in DOMAIN log : log[i].ex = 3 /\ log[i].before.layout # NoRef
                             /\ log[i].before.textStyle # NoRef

\* ------------------------------------------------------ download properties
Deduped == phase # "dedupe"

Min(S) == CHOOSE x \in S : \A y \in S : x <= y

\* The requests for image reference ref that carry no filename suffix.
Unsuffixed(ref) ==
  {r \in DOMAIN nodes : nodes[r].imageRef = ref /\ nodes[r].filenameSuffix = ""}

RequestedRefs == {nodes[r].imageRef : r \in DOMAIN nodes} \ {""}

ItemOf(t) == items[tasks[t].item]

\* C6: the requests that share an imageRef and carry no filename suffix
\* produce exactly one download item, the first one's; every later one is
\* recorded as an alias of that download, and its name is reported on that
\* download's line of the reply.
C6_SameRefOneDownload ==
  Deduped =>
    \A ref \in RequestedRefs :
      Unsuffixed(ref) # {} =>
        /\ \A j \in DOMAIN items :
             items[j].src \in Unsuffixed(ref) => items[j].src = Min(Unsuffixed(ref))
        /\ \E j \in DOMAIN items : items[j].src = Min(Unsuffixed(ref))
        /\ \A r \in Unsuffixed(ref) \ {Min(Unsuffixed(ref))} :
             /\ merged[r] # 0
             /\ items[merged[r]].src = Min(Unsuffixed(ref))
        /\ response.kind = "ok" =>
             \A t \in DOMAIN tasks :
               ItemOf(t).src = Min(Unsuffixed(ref)) =>
                 \A r \in Unsuffixed(ref) :
                   FinalFileName(nodes[r]) # ItemOf(t).fileName =>
                     FinalFileName(nodes[r]) \in Range(response.lines[t].aliases)

\* C7: every request with a filename suffix and every render request has a
\* download item of its own, and a request is merged into an earlier download
\* only if both are fills of the same imageRef and neither carries a suffix.
C7_SuffixedAndRendersNeverMerged ==
  Deduped =>
    \A r \in DOMAIN nodes :
      /\ (nodes[r].filenameSuffix # "" \/ nodes[r].imageRef = "") =>
           /\ merged[r] = 0
           /\ \E j \in DOMAIN items : items[j].src = r
      /\ merged[r] # 0 =>
           /\ nodes[r].imageRef # ""
           /\ nodes[r].filenameSuffix = ""
           /\ nodes[items[merged[r]].src].imageRef = nodes[r].imageRef
           /\ nodes[items[merged[r]].src].filenameSuffix = ""

Failed == {t \in DOMAIN tasks : tasks[t].status = "failed"}

Succeeded == {t \in DOMAIN tasks : tasks[t].status = "ok"}

\* C8: when every URL request was answered and exactly one of the n started
\* downloads failed while the others succeeded, the handler's reply is not an
\* error and lists exactly the n-1 successful downloads.
C8_FailureIsolated ==
  ( /\ phase = "done"
    /\ response.kind # "request failed"
    /\ Cardinality(Failed) = 1
    /\ Succeeded \cup Failed = DOMAIN tasks )
  => /\ response.kind = "ok"
     /\ Len(response.lines) = Cardinality(Succeeded)
     /\ \A t \in Succeeded :
          \E k \in DOMAIN response.lines :
            response.lines[k].fileName = Basename(tasks[t].filePath)

\* C9: no two downloads of one call write to the same file path at a time.
C9_OneWriterPerFile ==
  \A t1 \in DOMAIN tasks : \A t2 \in DOMAIN tasks :
    ( /\ t1 # t2
      /\ tasks[t1].status = "streaming"
      /\ tasks[t2].status = "streaming" )
    => tasks[t1].filePath # tasks[t2].filePath

\* The names of the requests merged into item j, in request order, the name
\* of the download itself left out.
AliasesOf(j) ==
  LET rs == SelectSeq([r \in DOMAIN nodes |-> r],
                      LAMBDA r : /\ merged[r] = j
                                 /\ FinalFileName(nodes[r]) # items[j].fileName)
  IN [k \in 1 .. Len(rs) |-> FinalFileName(nodes[rs[k]])]

\* Fills come first, then PNG renders, then SVG renders.
BatchOf(j) ==
  IF items[j].imageRef # "" THEN 0 ELSE IF IsSvg(items[j].fileName) THEN 2 ELSE 1

\* C10: the reply lists the results in an order fixed by the request list
\* (batch by batch, in item order), and each line carries the aliases of the
\* deduplicated request that produced it, never those of another request.
C10_ReportFollowsRequests ==
  response.kind = "ok" =>
    /\ Len(response.lines) = Len(tasks)
    /\ \A t \in DOMAIN tasks :
         /\ response.lines[t].fileName = ItemOf(t).fileName
         /\ response.lines[t].aliases = AliasesOf(tasks[t].item)
    /\ \A t1 \in DOMAIN tasks : \A t2 \in DOMAIN tasks :
         t1 < t2 =>
           \/ BatchOf(tasks[t1].item) < BatchOf(tasks[t2].item)
           \/ /\ BatchOf(tasks[t1].item) = BatchOf(tasks[t2].item)
              /\ tasks[t1].item < tasks[t2].item

Categories == {"fills", "png", "svg"}

\* The items of a category: its URL request is sent iff there is one.
CategoryItems(c) ==
  CASE c = "fills" -> imageFills(items)
    [] c = "png" -> pngNodes(items)
    [] c = "svg" -> svgNodes(items)

PhaseRank ==
  [dedupe |-> 0, fills |-> 1, fillsWait |-> 2, png |-> 3, pngWait |-> 4,
   svg |-> 5, svgWait |-> 6, await |-> 7, done |-> 8]

\* The URL request of category c has been sent.
Issued(c) == PhaseRank[phase] >= PhaseRank[WaitPhase[c]]

\* C11: the URL requests of the categories run in parallel: while the
\* request of one category is in flight, the request of every other category
\* that has items has been sent too, none waits for another's answer.
C11_UrlRequestsInParallel ==
  \A c1 \in Categories : \A c2 \in Categories :
    (phase = WaitPhase[c1] /\ CategoryItems(c2) # <<>>) => Issued(c2)

\* C12: no file ever exists under a requested final name with only part of
\* its content.
C12_NoPartialFinalFile == \A f \in AllFileNames : files[f] # "partial"

\* ------------------------------------------------ post-processing properties
\* The crop region the call computes has no pixels in one direction.
EmptyCropRequested ==
  /\ CropRequested
  /\ proc.pc \notin {"idle", "downloaded"}
  /\ \/ cropWidth(call.cropTransform, proc.originalDimensions) <= 0
     \/ cropHeight(call.cropTransform, proc.originalDimensions) <= 0

\* C13: when cropping is requested and the computed crop width or height is
\* <= 0, the downloaded file is never modified, the call still returns, and
\* its result has wasCropped = false, no cropRegion and finalDimensions equal
\* to originalDimensions.
C13_EmptyCropKeepsOriginal ==
  EmptyCropRequested =>
    /\ disk.file = proc.downloaded
    /\ disk.tmp = AbsentFile
    /\ ~proc.wasCropped
    /\ proc.cropRegion = NoRegion
    /\ proc.pc \in {"measured", "processed", "returned"}
    /\ proc.pc # "returned" => ENABLED NextI
    /\ proc.pc = "returned" => proc.finalDimensions = proc.originalDimensions

C13_Witness ==
  /\ EmptyCropRequested
  /\ proc.pc = "returned"
  /\ HasMetadata(proc.downloaded)
  /\ cropWidth(call.cropTransform, proc.originalDimensions) = 0
  /\ cropHeight(call.cropTransform, proc.originalDimensions) > 0

\* The rectangle the transform names on a picture of dimensions d.
Rectangle(t, d) ==
  [left |-> RoundScaled(t.translateX, d.width),
   top |-> RoundScaled(t.translateY, d.height),
   width |-> RoundScaled(t.scaleX, d.width),
   height |-> RoundScaled(t.scaleY, d.height)]

WhollyInside(r, d) ==
  /\ r.left >= 0 /\ r.top >= 0
  /\ r.width > 0 /\ r.height > 0
  /\ r.left + r.width <= d.width
  /\ r.top + r.height <= d.height

\* C14: a crop rectangle that is not wholly inside the picture leaves the
\* original file as downloaded; one that is inside is extracted exactly
\* (or the file is left alone when the extraction itself failed).
C14_CropRectangle ==
  ( /\ proc.pc = "returned"
    /\ CropRequested
    /\ HasMetadata(proc.downloaded) )
  => IF WhollyInside(Rectangle(call.cropTransform, proc.originalDimensions),
                     proc.originalDimensions)
       THEN disk.file \in {proc.downloaded,
                           Extract(proc.downloaded,
                                   Rectangle(call.cropTransform, proc.originalDimensions))}
       ELSE disk.file = proc.downloaded /\ ~proc.wasCropped

\* --------------------------------------------------- transformer properties
Returned(fn) == ret.done /\ arg.fn = fn

\* Math.round(channel * 255) for a channel in thousandths.
Channel8(c) == RoundDiv(c * 255, 1000)

HexByte(n) == <<HexDigit[(n \div 16) + 1], HexDigit[(n % 16) + 1]>>

\* round(o * a * 100) in hundredths.
CombinedOpacity(raw) == RoundDiv(raw.opacity * raw.a, 100)

ExpectedSolid(raw) ==
  IF CombinedOpacity(raw) = 100
    THEN <<"#">> \o HexByte(Channel8(raw.r)) \o HexByte(Channel8(raw.g))
           \o HexByte(Channel8(raw.b))
    ELSE <<"rgba(">> \o DecTokens(Channel8(raw.r)) \o <<", ">>
           \o DecTokens(Channel8(raw.g)) \o <<", ">>
           \o DecTokens(Channel8(raw.b)) \o <<", ">>
           \o NumTokens(CombinedOpacity(raw)) \o <<")">>

\* C15: a SOLID paint of combined opacity 1 converts to the 6-digit
\* uppercase hex of its rounded channels, any other to rgba(R, G, B, A) with
\* A = round(o * a * 100) / 100, the colour's alpha applied once.
C15_SolidPaint ==
  (Returned("parsePaint") /\ arg.raw.type = "SOLID")
    => ret.value = ExpectedSolid(arg.raw)

\* The number of values of a shorthand.
ValueCount(shorthand) == Len(SelectSeq(shorthand, LAMBDA tok : tok = "px"))

AllZero(v) == v[1] = 0 /\ v[2] = 0 /\ v[3] = 0 /\ v[4] = 0

ExpectedShorthand(v) ==
  IF AllZero(v) THEN Undef
  ELSE IF v[1] = v[2] /\ v[2] = v[3] /\ v[3] = v[4] THEN Px(v[1])
  ELSE IF v[1] = v[3] /\ v[2] = v[4] THEN Px(v[1]) \o <<" ">> \o Px(v[2])
  ELSE Px(v[1]) \o <<" ">> \o Px(v[2]) \o <<" ">> \o Px(v[3]) \o <<" ">> \o Px(v[4])

\* C16: generateCSSShorthand gives no value for all-zero edges, one value
\* when the four edges are equal, two (top right) when top = bottom and
\* right = left, four (top right bottom left) otherwise, and never any other
\* number of values.
C16_ShorthandValues ==
  Returned("generateCSSShorthand") =>
    /\ ret.value = ExpectedShorthand(arg.values)
    /\ ValueCount(ret.value) \in {0, 1, 2, 4}

\* ------------------------------------------------ paint variant properties
\* The paint is of a variant the conversion has no case for.
Unrecognised(raw) ==
  \/ raw.type \notin RecognisedPaintTypes
  \/ raw.type = "IMAGE" /\ raw.scaleMode \notin ScaleModes

HasUnrecognisedPaint(node) ==
  \E i \in DOMAIN ConvertedPaints(node) : Unrecognised(ConvertedPaints(node)[i])

\* C17: converting a paint of an unrecognised variant raises an error, and a
\* get_figma_data call whose visited tree holds such a paint among a node's
\* fills or visible strokes returns an isError result without a document; no
\* such paint is emitted as a style value.
C17_UnrecognisedPaintIsFatal ==
  /\ Returned("parsePaint") /\ Unrecognised(arg.raw) => ret.threw
  /\ reply.returned /\ (\E n \in emitted : HasUnrecognisedPaint(RawNode(n)))
       => reply.isError /\ ~reply.document.present

\* ------------------------------------------------- fetch failure properties
\* The text of the reply names the endpoint parameters of the call.
NamesEndpoint(text, q) ==
  /\ q.fileKey \in Range(text)
  /\ q.nodeId # "" => q.nodeId \in Range(text)

NamesCause(text) == \E cause \in Causes : text[Len(text)] = cause

\* The catch block ran before the extraction visited any node: what was
\* thrown came from the fetch.
FetchFailed == gpc = "failed" /\ emitted = {}

\* The handler is not over: one of its steps can be taken.
HandlerCanStep ==
  \/ ENABLED (FetchRaw \/ FetchThrows \/ ExtractionThrows \/ SendResult)
  \/ ENABLED (EnterNode \/ Descend \/ StopAtDepth)
  \/ cur # NoCur /\ \E name \in Range(allExtractors) : ExtractorReady(name)

\* C18: the get_figma_data handler always ends by returning a result; when
\* the upstream fetch fails that result is one isError result whose single
\* text names the endpoint (file key, node id) and the upstream cause, holds
\* no document, and the handler made one request only.
C18_FetchFailureIsOneError ==
  /\ Len(fetches) <= 1
  /\ HandlerCanStep \/ reply.returned
  /\ reply.returned /\ reply.isError => ~reply.document.present
  /\ FetchFailed =>
       /\ reply.returned /\ reply.isError
       /\ NamesEndpoint(reply.text, query)
       /\ NamesCause(reply.text)
       /\ ~reply.document.present
       /\ fetches = <<Endpoint(query)>>

C18_Witness ==
  /\ FetchFailed
  /\ query.nodeId # ""
  /\ reply.returned /\ reply.isError
  /\ NamesEndpoint(reply.text, query) /\ NamesCause(reply.text)

\* --------------------------------------------------- image fill properties
IsImageCall == Returned("parsePaint") /\ arg.raw.type = "IMAGE"

\* The scale-mode table for a fill treated as a background or not.
FollowsTable(mode, background, fill) ==
  CASE mode = "FILL" ->
         IF background THEN fill.backgroundSize = Str("cover")
         ELSE fill.objectFit = Str("cover")
    [] mode = "FIT" ->
         IF background THEN fill.backgroundSize = Str("contain")
         ELSE fill.objectFit = Str("contain")
    [] mode = "STRETCH" ->
         IF background THEN fill.backgroundSize = Str("100% 100%")
         ELSE fill.objectFit = Str("fill")
    [] mode = "TILE" -> fill.backgroundRepeat = Str("repeat")
    [] OTHER -> TRUE

\* The css group of the fill is the one of a background, or the one of a
\* replaceable element, and follows the table.
ImageCssRule(mode, background, fill) ==
  /\ fill.isBackground = Str(IF background THEN "true" ELSE "false")
  /\ IF background
       THEN /\ fill.backgroundSize # Undef
            /\ fill.backgroundRepeat # Undef
            /\ fill.objectFit = Undef
       ELSE /\ fill.objectFit # Undef
            /\ fill.backgroundSize = Undef
            /\ fill.backgroundRepeat = Undef
  /\ FollowsTable(mode, background, fill)

\* C19: every IMAGE paint is treated as a background iff the node has
\* children or the scale mode is TILE; a background fill carries
\* backgroundSize and backgroundRepeat and no objectFit, any other fill
\* carries objectFit only, with FILL -> cover, FIT -> contain,
\* STRETCH -> 100% 100% / fill, TILE -> repeat.
C19_ImageCss ==
  IsImageCall =>
    ImageCssRule(arg.raw.scaleMode,
                 arg.hasChildren \/ arg.raw.scaleMode = "TILE", ret.value)

\* The same rule for the paints whose scale mode is one of the table.
TableHoldsForKnownModes ==
  IsImageCall /\ arg.raw.scaleMode \in ScaleModes =>
    ImageCssRule(arg.raw.scaleMode,
                 arg.hasChildren \/ arg.raw.scaleMode = "TILE", ret.value)

DownloadArguments == ret.value.imageDownloadArguments

\* C20: an IMAGE paint with scale mode TILE gives download arguments with
\* requiresImageDimensions true, with or without an imageTransform;
\* needsCropping is true iff the paint has an imageTransform, and
\* cropTransform and filenameSuffix are present iff needsCropping is true.
C20_DownloadArguments ==
  IsImageCall =>
    /\ arg.raw.scaleMode = "TILE" => DownloadArguments.requiresImageDimensions
    /\ DownloadArguments.needsCropping <=> arg.raw.imageTransform.present
    /\ DownloadArguments.cropTransform.present <=> DownloadArguments.needsCropping
    /\ DownloadArguments.filenameSuffix # Undef <=> DownloadArguments.needsCropping

C20_Witness ==
  /\ IsImageCall
  /\ arg.raw.scaleMode = "TILE"
  /\ arg.raw.imageTransform.present
  /\ DownloadArguments.requiresImageDimensions
  /\ DownloadArguments.needsCropping
  /\ DownloadArguments.filenameSuffix # Undef

\* ------------------------------------------------------ gradient properties
IsLinearCall ==
  /\ Returned("parsePaint")
  /\ arg.raw.type = "GRADIENT_LINEAR"
  /\ Len(arg.raw.gradientHandlePositions) = 2

StartHandle == arg.raw.gradientHandlePositions[1]

EndHandle == arg.raw.gradientHandlePositions[2]

StartsWith(text, prefix) ==
  Len(text) >= Len(prefix) /\ SubSeq(text, 1, Len(prefix)) = prefix

\* d is the direction, in whole degrees, of the vector (dx, dy): exact on
\* the eight compass directions, strictly between its two neighbours
\* otherwise.
IsDirection(d, dx, dy) ==
  CASE dy = 0 /\ dx > 0 -> d = 0
    [] dy = 0 /\ dx < 0 -> d = 180
    [] dx = 0 /\ dy > 0 -> d = 90
    [] dx = 0 /\ dy < 0 -> d = -90
    [] dx = dy /\ dx > 0 -> d = 45
    [] dx = dy /\ dx < 0 -> d = -135
    [] dx = 0 - dy /\ dx > 0 -> d = -45
    [] dx = 0 - dy /\ dx < 0 -> d = 135
    [] OTHER ->
         /\ dx > 0 /\ dy > 0 => (IF dy < dx THEN 0 < d /\ d < 45 ELSE 45 < d /\ d < 90)
         /\ dx < 0 /\ dy > 0 =>
              (IF dy < 0 - dx THEN 135 < d /\ d < 180 ELSE 90 < d /\ d < 135)
         /\ dx > 0 /\ dy < 0 =>
              (IF 0 - dy < dx THEN -45 < d /\ d < 0 ELSE -90 < d /\ d < -45)
         /\ dx < 0 /\ dy < 0 =>
              (IF dy > dx THEN -180 < d /\ d < -135 ELSE -135 < d /\ d < -90)

\* C21: a linear gradient whose first two handles are (0,0) and (1,0) is
\* emitted with 90deg; in general the emitted angle is the direction of the
\* vector from the first to the second handle plus 90 degrees; when both
\* handles are equal the gradient is emitted with 0deg and its stops at the
\* positions they have.
C21_LinearGradientAngle ==
  IsLinearCall =>
    /\ StartHandle = [x |-> 0, y |-> 0] /\ EndHandle = [x |-> 100, y |-> 0]
         => StartsWith(ret.value.gradient, <<"linear-gradient(", "9", "0", "deg", ", ">>)
    /\ StartHandle # EndHandle =>
         \E d \in -180 .. 180 :
           /\ IsDirection(d, EndHandle.x - StartHandle.x, EndHandle.y - StartHandle.y)
           /\ StartsWith(ret.value.gradient,
                         <<"linear-gradient(">> \o IntTokens(d + 90) \o <<"deg", ", ">>)
    /\ StartHandle = EndHandle =>
         ret.value.gradient =
           <<"linear-gradient(", "0", "deg", ", ">>
             \o LiteralStops(SortStops(arg.raw.gradientStops)) \o <<")">>

C21_Witness ==
  /\ IsLinearCall
  /\ StartHandle = [x |-> 0, y |-> 0]
  /\ EndHandle = [x |-> 100, y |-> 0]
  /\ StartsWith(ret.value.gradient, <<"linear-gradient(", "9", "0", "deg", ", ">>)

\* ------------------------------------------------ layout extractor property
\* C22: layoutExtractor inserts the computed layout into the registry and
\* sets result.layout exactly when the layout record is non-empty; for an
\* empty record it leaves the result and the registry unchanged.
C22_LayoutInsertedIffNonEmpty ==
  [][RunLayout =>
       IF Len(RawNode(cur.node).layout) > 0
         THEN /\ result'[cur.node].layout \in StyleKeys(styles')
              /\ StructEq(styles'[result'[cur.node].layout], RawNode(cur.node).layout)
         ELSE result' = result /\ styles' = styles]_vars

\* ---------------------------------------------------- invocation properties
\* Every entry of the registry of inv holds a value inv registered.
OwnEntries(inv) ==
  \A id \in StyleKeys(reg[inv]) :
    \E k \in 1 .. Len(refs[inv]) : reg[inv][id] = work[inv][k].value

\* C23: the registry findOrCreateVar reads and writes is the one of the
\* invocation's own traversal context: a step of one invocation leaves the
\* registry of the other as it was, and every entry and every returned id of
\* an invocation's output comes from that invocation's own calls.
C23_RegistryIsInvocationScoped ==
  [][\A inv \in Invocations :
       /\ ExtractStep(inv) =>
            \A other \in Invocations \ {inv} : reg'[other] = reg[other]
       /\ OwnEntries(inv)'
       /\ \A k \in DOMAIN refs'[inv] : refs'[inv][k] \in StyleKeys(reg'[inv])]_vars

C23_Witness ==
  /\ Len(refs[1]) = MaxWork
  /\ Len(refs[2]) = MaxWork
  /\ work[1][1] = work[2][2]
  /\ reg[1] # reg[2]

\* -------------------------------------------------- css variable properties
\* C24: downloadAndProcessImage sets cssVariables iff requiresImageDimensions
\* was asked for, and when set they state the width and height of the final
\* file (after any crop), which are the result's finalDimensions.
C24_CssVariables ==
  proc.pc = "returned" =>
    /\ proc.cssVariables # NoCssVariables <=> call.requiresImageDimensions
    /\ call.requiresImageDimensions =>
         /\ proc.cssVariables =
              <<"--original-width: ", proc.finalDimensions.width,
                "px; --original-height: ", proc.finalDimensions.height, "px;">>
         /\ HasMetadata(disk.file) =>
              /\ proc.finalDimensions.width = disk.file.width
              /\ proc.finalDimensions.height = disk.file.height

C24_Witness ==
  /\ proc.pc = "returned"
  /\ call.requiresImageDimensions
  /\ proc.wasCropped
  /\ proc.finalDimensions # proc.originalDimensions
  /\ proc.cssVariables # NoCssVariables

\* ------------------------------------------------- deduplication properties
\* The requests answered by download item i: the one it was made for and
\* those merged into it.
MergeGroup(i) == {items[i].src} \cup {r \in DOMAIN merged : merged[r] = i}

\* Item i had at least one request merged into it.
HasMerges(i) == \E r \in DOMAIN merged : merged[r] = i

\* The flag of item i is true iff a request of its group asked for dimensions.
FlagOfGroup(i) ==
  items[i].requiresImageDimensions <=>
    \E r \in MergeGroup(i) : nodes[r].requiresImageDimensions

\* C25: when requests are merged into one download, the item that is sent
\* (canonical file name, no suffix) asks for dimensions iff one of the merged
\* requests did, and the flag of every other item stays as it was requested.
C25_MergedDimensionsFlag ==
  phase # "dedupe" =>
    \A i \in DOMAIN items :
      IF HasMerges(i)
        THEN /\ nodes[items[i].src].filenameSuffix = ""
             /\ FlagOfGroup(i)
        ELSE items[i].requiresImageDimensions =
               nodes[items[i].src].requiresImageDimensions

\* ------------------------------------------------------ size gate properties
\* The environment text is the decimal text of a positive integer.
IsPositiveLimit(env) == \E L \in 1 .. (MaxLimit + 1) : env = LimitText(L)

PositiveLimit(env) == CHOOSE L \in 1 .. (MaxLimit + 1) : env = LimitText(L)

\* C26: with GET_NODE_SIZE_LIMIT set to a positive integer L the formatted
\* document is returned only if its UTF-8 size is at most L * 1024 bytes and
\* every larger one gets an error result without the data; with the limit
\* unset, zero or unparsable every document is returned.
C26_SizeLimit ==
  Returned("get_figma_data") =>
    IF IsPositiveLimit(arg.env) /\ arg.bytes > PositiveLimit(arg.env) * 1024
      THEN ret.value.isError /\ ret.value = SizeExceeded
      ELSE ret.value = FormattedDocument(arg.bytes)

\* ----------------------------------------------- reference closure properties
RefFields == {"layout", "textStyle", "fills", "strokes", "effects"}

\* The value an extractor computes for field of node n before it registers it.
ComputedValue(n, field) ==
  CASE field = "layout" -> RawNode(n).layout
    [] field = "textStyle" -> extractTextStyle(RawNode(n))
    [] field = "fills" -> FillsValue(RawNode(n), HasChildren(n))
    [] field = "strokes" -> buildSimplifiedStrokes(RawNode(n), HasChildren(n))
    [] field = "effects" -> RawNode(n).effects

\* C27: at the end of a traversal every style reference on an output node is
\* a key of the registry, and the value stored under it is structurally equal
\* to the value computed for that node when the reference was written.
C27_ReferencesResolve ==
  WalkDone =>
    \A n \in emitted : \A field \in RefFields :
      result[n][field] # NoRef =>
        /\ result[n][field] \in StyleKeys(styles)
        /\ StructEq(styles[result[n][field]], ComputedValue(n, field))

\* ------------------------------------------------ failed download properties
\* Download t is the only one of the call that writes to its path.
SoleWriter(t) ==
  \A u \in DOMAIN tasks : u # t => tasks[u].filePath # tasks[t].filePath

\* The fs.unlink calls issued for the path of download t have been performed.
CleanupHasRun(t) == Basename(tasks[t].filePath) \notin unlinks

\* C28: once the cleanup of a failed downloadFigmaImage call has run, no
\* file, empty or partial, is left at the path it was asked to write.
C28_FailedDownloadLeavesNoFile ==
  \A t \in DOMAIN tasks :
    tasks[t].status = "failed" /\ SoleWriter(t) /\ CleanupHasRun(t) =>
      files[Basename(tasks[t].filePath)] = "absent"

\* ---------------------------------------------------- crop result properties
\* Region r lies wholly inside a picture of dimensions d and has pixels.
InsideOriginal(r, d) ==
  /\ 0 <= r.left /\ 0 <= r.top
  /\ r.left + r.width <= d.width
  /\ r.top + r.height <= d.height
  /\ r.width > 0 /\ r.height > 0

\* C29: a result with wasCropped = true describes a file that was cropped:
\* its cropRegion lies wholly inside the original image and has pixels, and
\* its finalDimensions are the region's width and height, also when the crop
\* step itself fails.
C29_CroppedResultIsCropped ==
  proc.pc = "returned" /\ proc.wasCropped =>
    /\ InsideOriginal(proc.cropRegion, proc.originalDimensions)
    /\ proc.finalDimensions.width = proc.cropRegion.width
    /\ proc.finalDimensions.height = proc.cropRegion.height
    /\ disk.file = Extract(proc.downloaded, proc.cropRegion)

\* ------------------------------------------------------ partition properties
\* The paths of downloadImages that take item i.
PathsOf(i) ==
  {p \in {"fill", "png", "svg"} :
     \/ p = "fill" /\ i \in Range(imageFills(items))
     \/ p = "png" /\ i \in Range(pngNodes(items))
     \/ p = "svg" /\ i \in Range(svgNodes(items))}

DownloadsOf(i) == {t \in DOMAIN tasks : tasks[t].item = i}

IsErrorResponse == response.kind \notin {"none", "ok"}

====
